---------------------------- MODULE Spec2Model ----------------------------
(***************************************************************************)
(* lock_free::queue (src/unnamed/part_008) over core::arena_allocator      *)
(* (src/include/core/arena_allocator.h), the only arena of the repository  *)
(* whose deallocate returns the core::result_t that queue::destroy_node    *)
(* forwards.  Every atomic load, store, exchange and compare-exchange of   *)
(* the lock-free backend, and every statement of the serialized backends,  *)
(* is one step of the thread that runs it.  Memory that the arena has      *)
(* handed back to its free list stays readable (chunks are released only   *)
(* by clear), so a stale pointer reads whatever the slot holds now.        *)
(***************************************************************************)
EXTENDS Integers, Sequences, FiniteSets, TLC

(* ------------------------------ bounds --------------------------------- *)
\* template parameter chunk_size of the queue: slots per chunk
ChunkSize == 2
\* template argument alloc_threshold the queue hands to its arena: chunk_size / 3.
\* At 0 allocate grows the arena itself; above 0 growth is left to the worker thread.
AllocThreshold == ChunkSize \div 3
\* chunks the raw allocator grants before std::aligned_alloc returns nullptr
MaxChunks == 2
\* push calls the thread of the single-threaded run makes
MaxPush == 5
\* push calls the first producer of a lock-free run makes
MaxPushLF == 3
\* push calls the second thread of the lock-free multi-producer run makes
MaxPush2 == 1
\* push calls each thread of the serialized run makes
MaxPushSer == 2
\* pops that detach a node, over all threads
MaxPops == 4
\* allocate and deallocate calls one thread makes on an arena used on its own
MaxCalls == 4
MaxCalls1 == 6
\* push calls of each thread in the runs that check progress
MaxPushLive == 2
\* writes a thread makes on a mailbox
MaxWrites == 2
MaxCallsLF == 3
\* releases of _sem_th_alloc that may be pending
MaxSem == 1
\* entries of instances_table (max_instances_per_type)
RegItems == 2
\* arenas of one element type a run constructs
MaxArenas == 3
\* calls each client makes on an arena that has a prefetch thread
MaxCallsPre == 3
\* core::unique_ptr objects, std::unique_ptr objects and heap objects of a run
MaxPtrs == 2
MaxStd == 1
MaxObjs == 2
\* slots of each arena of a type
MaxPoolSlots == 1
\* new thread IDs handed out by one thread_map
MaxIds == 3
\* calls made on one spinlock
MaxSpinCalls == 6
\* memory_address::address_flags::DESTROY
DESTROY == 1

Threads == {1, 2}
Null == 0
Slots == 1 .. (ChunkSize * MaxChunks)
Arenas == 1 .. MaxArenas
Backends == {"raw", "mutex", "spinlock", "lockfree"}

\* the value thread t hands to its k-th push: all values are distinct
Val(t, k) == (t - 1) * MaxPush + k
\* the thread that pushed value v
Producer(v) == ((v - 1) \div MaxPush) + 1

VARIABLES
  backend,     \* imp_type of the queue
  role,        \* what each thread of the run calls: "producer", "consumer", "both", "off"
  quota,       \* push calls each thread of the run makes at most
  chunks,      \* _mem_chunks.size()
  next_free,   \* arena _next_free
  free_slots,  \* arena _free_slots
  max_length,  \* arena _max_length
  slot_next,   \* memory_slot::_ptr_next, address part
  slot_used,   \* memory_slot::_ptr_next, DESTROY flag (in_use)
  node_next,   \* node_t::_next of the node stored in the slot
  node_data,   \* node_t::_data
  head,        \* queue _head
  tail,        \* queue _tail
  qmtx,        \* plug_mutex::_mtx of the queue
  pc,          \* where each thread is
  new_node, old_tail, old_head, old_next,   \* locals of push / pop
  data,        \* the caller's out parameter of pop
  data0,       \* its value when the running pop was called
  ret,         \* result of the thread's last finished call
  nextv,       \* calls the thread has started: pushes on a queue, calls on an arena
  pushLog,     \* values whose push returned eSuccess, in the order the pushes finished
  popLog,      \* one entry per detached node, in the order the heads were moved
  popIdx,      \* the entry of the thread's running pop
  size_limit,  \* template parameter size_limit of an arena used on its own
  threshold,   \* template parameter alloc_threshold of an arena used on its own
  sem,         \* _sem_th_alloc: releases the prefetch worker has not consumed
  ptr,         \* pointer a thread's arena call works on: pCurrSlot / userdata
  pnext,       \* what a lock-free arena call read beside it: pCurrSlot->next() / pCurrNext
  own,         \* pointers each thread got from allocate and has not deallocated
  freed,       \* pointers deallocated since the arena last grew, latest first, not yet handed out again
  reg,         \* instances_table._array: the arena registered at each index
  ndx,         \* _ndx_instance of each arena
  live,        \* arenas constructed and not destroyed
  rpc,         \* where each arena's constructor or destructor is
  rcur,        \* loop index of each arena's running fixed_lookup_table::add
  tmo,         \* timeout argument of each thread's running mailbox::read
  seen,        \* -1 from a thread's write on an empty, idle mailbox until a reader steps in;
               \* in the read that thread calls next, the value that write left; else 0
  up,          \* core::unique_ptr objects: whether constructed, and their _ptr (address, flags)
  sp,          \* address held by each std::unique_ptr
  uop,         \* the unique_ptr operation made last
  wpc,         \* where the arena's prefetch thread is
  dpc,         \* where the arena's destructor is; _th_alloc_exit is set once it is not "live"
  pool,        \* per arena of one type: its free list and its _free_slots; the slots in use,
               \* each with the arena that handed it out; whether a null arena was dereferenced
  tm,          \* thread_map: _map (ids of the threads in known), _counter, and its base
  mq,          \* multi_queue: number of queues, the sub-queue the queue variables stand for,
               \* the sub-queue each thread's last push went to
               \* and m_ndx_pop
  spin,        \* core::mutex: _lock, and the last call made on it
  qowner       \* the thread whose call of the queue's lock() has returned and that has
               \* not called unlock() since, else 0

arena  == <<chunks, next_free, free_slots, max_length, slot_next, slot_used>>
nodes  == <<node_next, node_data>>
queue  == <<head, tail, qmtx>>
locals == <<new_node, old_tail, old_head, old_next>>
caller == <<data, data0, ret, nextv>>
ghost  == <<pushLog, popLog, popIdx>>
direct == <<size_limit, threshold, sem, ptr, pnext, own, freed>>
registry == <<reg, ndx, live, rpc, rcur>>
mbox == <<tmo, seen>>
uniq == <<up, sp, uop>>
prefetch == <<wpc, dpc>>
more == <<pool, tm, mq, spin, qowner>>
config == <<backend, role, quota, direct, registry, mbox, uniq, prefetch, more>>
vars   == <<config, arena, nodes, queue, pc, locals, caller, ghost>>

has_mutex == backend \in {"mutex", "spinlock"}

(* --------------------------- arena: chunks ------------------------------ *)
\* first slot of chunk number c (1-based)
FirstSlot(c) == (c - 1) * ChunkSize + 1
LastSlot(c)  == c * ChunkSize

\* memory_slot chain built by the initialisation loop, then spliced before nf
ChunkLinks(c, nf) ==
  [s \in FirstSlot(c) .. LastSlot(c) |-> IF s < LastSlot(c) THEN s + 1 ELSE nf]

\* arena state after unsafe_add_mem_chuck / add_mem_chuck on <<ch, nf, fs, sn, su>>
AddChunk(ch, nf, sn, su) ==
  LET c  == ch + 1
      lk == ChunkLinks(c, nf)
  IN  [ chunks |-> c,
        next_free |-> FirstSlot(c),
        slot_next |-> [s \in Slots |-> IF s \in DOMAIN lk THEN lk[s] ELSE sn[s]],
        slot_used |-> [s \in Slots |-> IF s \in DOMAIN lk THEN FALSE ELSE su[s]] ]

\* the raw allocator still has memory for one more chunk
RawCanAllocate(ch) == ch < MaxChunks

\* arena after the constructor: chunks are added while max_length() < initial_size,
\* with initial_size == chunk_size
ArenaInit ==
  AddChunk(0, Null, [s \in Slots |-> Null], [s \in Slots |-> FALSE])

\* no thread is in a call, nothing has been pushed, popped or returned
QueueInit0 ==
  /\ node_next = [s \in Slots |-> Null]
  /\ node_data = [s \in Slots |-> 0]
  /\ head = Null
  /\ tail = Null
  /\ qmtx = FALSE
  /\ pc = [t \in Threads |-> "idle"]
  /\ new_node = [t \in Threads |-> Null]
  /\ old_tail = [t \in Threads |-> Null]
  /\ old_head = [t \in Threads |-> Null]
  /\ old_next = [t \in Threads |-> Null]
  /\ data = [t \in Threads |-> 0]
  /\ data0 = [t \in Threads |-> 0]
  /\ ret = [t \in Threads |-> "none"]
  /\ nextv = [t \in Threads |-> 0]
  /\ pushLog = <<>>
  /\ popLog = <<>>
  /\ popIdx = [t \in Threads |-> 0]
  /\ tmo = [t \in Threads |-> 0]
  /\ seen = [t \in Threads |-> 0]
  /\ up = [p \in 1 .. MaxPtrs |-> [made |-> FALSE, addr |-> Null, flags |-> 0]]
  /\ sp = [p \in 1 .. MaxStd |-> Null]
  /\ uop = [op |-> "none", dst |-> 0, src |-> 0, arg |-> FALSE]

\* the arena is not used on its own: it is the queue's, with the queue's parameters
DirectInit0 ==
  /\ sem = 0
  /\ ptr = [t \in Threads |-> Null]
  /\ pnext = [t \in Threads |-> Null]
  /\ own = [t \in Threads |-> {}]
  /\ freed = <<>>
  /\ wpc = IF threshold > 0 THEN "acquire" ELSE "none"
  /\ dpc = "live"

\* instances_table of a run that constructs and destroys no further arena
RegistryInit0 ==
  /\ reg = [i \in 0 .. (RegItems - 1) |-> Null]
  /\ ndx = [a \in Arenas |-> 0]
  /\ live = {}
  /\ rpc = [a \in Arenas |-> "none"]
  /\ rcur = [a \in Arenas |-> 0]

\* state of what a run does not use: arenas with their slots free, an empty
\* thread_map with base 0, a multi_queue of one queue, an unlocked mutex
\* thread_map(): _counter(base), empty _map; no call made yet
TmInit(b) ==
  [ids |-> [t \in Threads |-> 0], known |-> {}, counter |-> b, base |-> b,
   op |-> "none", by |-> 0, ret |-> 0, ok |-> FALSE]

\* multi_queue(): n sub-queues, m_ndx_pop 0; w is the sub-queue the queue
\* variables stand for
MqInit(n, w) ==
  [queues |-> n, watch |-> w, route |-> [t \in Threads |-> -1],
   qid |-> [t \in Threads |-> -1], ndx_pop |-> 0]

ExtraInit(tm0, mq0) ==
  /\ pool = [free |-> [a \in Arenas |-> [k \in 1 .. MaxPoolSlots |-> <<a, k>>]],
             cnt |-> [a \in Arenas |-> MaxPoolSlots],
             used |-> {}, fault |-> FALSE]
  /\ tm = tm0
  /\ mq = mq0
  /\ spin = [lock |-> FALSE, st |-> [t \in Threads |-> "idle"], n |-> 0,
             op |-> "none", by |-> 0, was |-> FALSE, ret |-> FALSE]
  /\ qowner = 0

ExtraInit0 == ExtraInit(TmInit(0), MqInit(1, 0))

Plain0 ==
  /\ chunks = ArenaInit.chunks
  /\ next_free = ArenaInit.next_free
  /\ free_slots = ChunkSize
  /\ max_length = ChunkSize
  /\ slot_next = ArenaInit.slot_next
  /\ slot_used = ArenaInit.slot_used
  /\ size_limit = 0
  /\ threshold = AllocThreshold
  /\ QueueInit0
  /\ DirectInit0
  /\ RegistryInit0

Init0 == Plain0 /\ ExtraInit0


(* ------------------------------ helpers --------------------------------- *)
\* outcomes of compare_exchange_weak: it may fail although the value matches
CasWeak(matches) == IF matches THEN {TRUE, FALSE} ELSE {FALSE}

\* a call returns: result r, the locals die
Return(t, r) ==
  /\ pc' = [pc EXCEPT ![t] = "idle"]
  /\ ret' = [ret EXCEPT ![t] = r]
  /\ new_node' = [new_node EXCEPT ![t] = Null]
  /\ old_tail' = [old_tail EXCEPT ![t] = Null]
  /\ old_head' = [old_head EXCEPT ![t] = Null]
  /\ old_next' = [old_next EXCEPT ![t] = Null]

Goto(t, l) == pc' = [pc EXCEPT ![t] = l]

\* a pop that detached a node returns r with the caller's out parameter at d
LogPop(t, r, d) ==
  /\ popLog' = [popLog EXCEPT ![popIdx[t]] = IF r = "Success" THEN d ELSE -1]
  /\ popIdx' = [popIdx EXCEPT ![t] = 0]

(* ------------------------------- calls ---------------------------------- *)
\* queue::push( value ): dispatch on imp_type
PushCall(t) ==
  /\ pc[t] = "idle"
  /\ role[t] \in {"producer", "both"}
  /\ nextv[t] < quota[t]
  /\ nextv' = [nextv EXCEPT ![t] = @ + 1]
  /\ ret' = [ret EXCEPT ![t] = "none"]
  /\ Goto(t, IF backend = "lockfree" THEN "alloc" ELSE "push_lock")
  /\ UNCHANGED <<config, arena, nodes, queue, locals, data, data0, ghost>>

\* queue::pop( data ): dispatch on imp_type
PopCall(t) ==
  /\ pc[t] = "idle"
  /\ role[t] \in {"consumer", "both"}
  /\ Len(popLog) < MaxPops
  /\ data0' = [data0 EXCEPT ![t] = data[t]]
  /\ ret' = [ret EXCEPT ![t] = "none"]
  /\ Goto(t, IF backend = "lockfree" THEN "pop_ld_head" ELSE "pop_lock")
  /\ UNCHANGED <<config, arena, nodes, queue, locals, data, nextv, ghost>>

(* ------------------- create_node: arena allocate ------------------------ *)
\* allocate, the section under _mtx_next: grow when the free list is empty
\* (alloc_threshold == 0), take the first free slot, --_free_slots
AllocLocked(t) ==
  /\ pc[t] = "alloc"
  /\ LET grow == AllocThreshold = 0 /\ next_free = Null /\ RawCanAllocate(chunks)
         a    == IF grow THEN AddChunk(chunks, next_free, slot_next, slot_used)
                 ELSE [chunks |-> chunks, next_free |-> next_free,
                       slot_next |-> slot_next, slot_used |-> slot_used]
         fs   == IF grow THEN free_slots + ChunkSize ELSE free_slots
         ml   == IF grow THEN ChunkSize * a.chunks ELSE max_length
         p    == a.next_free
     IN  /\ chunks' = a.chunks
         /\ slot_used' = a.slot_used
         /\ slot_next' = a.slot_next
         /\ max_length' = ml
         /\ IF p = Null
            THEN /\ next_free' = Null
                 /\ free_slots' = fs
                 /\ IF backend = "lockfree"
                    THEN /\ Return(t, "Failure")
                         /\ UNCHANGED <<ghost>>
                    ELSE /\ Goto(t, "push_unlock")
                         /\ ret' = [ret EXCEPT ![t] = "Failure"]
                         /\ UNCHANGED <<locals, ghost>>
            ELSE /\ next_free' = a.slot_next[p]
                 /\ free_slots' = fs - 1
                 /\ new_node' = [new_node EXCEPT ![t] = p]
                 /\ Goto(t, "inuse")
                 /\ UNCHANGED <<old_tail, old_head, old_next, ret, ghost>>
  /\ UNCHANGED <<config, nodes, queue, data, data0, nextv>>

\* allocate, after the unlock: pCurrSlot->set_in_use()
AllocSetInUse(t) ==
  /\ pc[t] = "inuse"
  /\ slot_next' = [slot_next EXCEPT ![new_node[t]] = Null]
  /\ slot_used' = [slot_used EXCEPT ![new_node[t]] = TRUE]
  /\ Goto(t, "ctor")
  /\ UNCHANGED <<config, chunks, next_free, free_slots, max_length, nodes, queue,
                 locals, caller, ghost>>

\* allocate: placement new of node_t( value ): _next(nullptr), _data(value)
AllocConstruct(t) ==
  /\ pc[t] = "ctor"
  /\ node_next' = [node_next EXCEPT ![new_node[t]] = Null]
  /\ node_data' = [node_data EXCEPT ![new_node[t]] = Val(t, nextv[t])]
  /\ Goto(t, IF backend = "lockfree" THEN "push_ld_tail" ELSE "push_link")
  /\ UNCHANGED <<config, arena, queue, locals, caller, ghost>>

(* ------------------ destroy_node: arena deallocate ---------------------- *)
\* what deallocate answers for a slot whose in-use flag reads u
DeallocCheck(u) == IF u THEN "proceed" ELSE "DoubleFree"

\* where a pop goes once destroy_node has returned r
AfterDestroy(t, r) ==
  IF backend = "lockfree"
  THEN /\ Return(t, r)
       /\ LogPop(t, r, data[t])
       /\ UNCHANGED <<head, tail, qmtx, pushLog>>
  ELSE /\ Goto(t, "pop_tail")
       /\ ret' = [ret EXCEPT ![t] = r]
       /\ UNCHANGED <<locals, ghost, head, tail, qmtx>>

\* deallocate up to the double-free test: pSlot->is_free()
DeallocIsFree(t) ==
  /\ pc[t] = "isfree"
  /\ IF DeallocCheck(slot_used[old_head[t]]) = "DoubleFree"
     THEN AfterDestroy(t, "DoubleFree")
     ELSE /\ Goto(t, "free")
          /\ UNCHANGED <<locals, ret, ghost, queue>>
  /\ UNCHANGED <<config, arena, nodes, data, data0, nextv>>

\* deallocate, the section under _mtx_next: set_free, push on the free list
DeallocLocked(t) ==
  /\ pc[t] = "free"
  /\ slot_next' = [slot_next EXCEPT ![old_head[t]] = next_free]
  /\ slot_used' = [slot_used EXCEPT ![old_head[t]] = FALSE]
  /\ next_free' = old_head[t]
  /\ free_slots' = free_slots + 1
  /\ AfterDestroy(t, "Success")
  /\ UNCHANGED <<config, chunks, max_length, nodes, data, data0, nextv>>


(* --------------------- _push_imp_lockfree ------------------------------- *)
\* push returns eSuccess
PushDone(t) ==
  /\ Return(t, "Success")
  /\ pushLog' = Append(pushLog, Val(t, nextv[t]))
  /\ UNCHANGED <<popLog, popIdx>>

\* old_tail = _tail.load()
PushLoadTail(t) ==
  /\ pc[t] = "push_ld_tail"
  /\ old_tail' = [old_tail EXCEPT ![t] = tail]
  /\ Goto(t, "push_ld_head")
  /\ UNCHANGED <<config, arena, nodes, queue, new_node, old_head, old_next,
                 caller, ghost>>

\* the branch the loop body takes on what it observed
PushBranch(oh, ot) ==
  IF oh = Null /\ ot # Null THEN "push_fix_tail"
  ELSE IF ot = Null THEN "push_cas_tail"
  ELSE "push_ld_next"

\* old_head = _head.load(), and the branch
PushLoadHead(t) ==
  /\ pc[t] = "push_ld_head"
  /\ old_head' = [old_head EXCEPT ![t] = head]
  /\ Goto(t, PushBranch(head, old_tail[t]))
  /\ UNCHANGED <<config, arena, nodes, queue, new_node, old_tail, old_next,
                 caller, ghost>>

\* head is null and tail is not: _tail.compare_exchange_weak( old_tail, nullptr ); continue
PushFixTail(t) ==
  /\ pc[t] = "push_fix_tail"
  /\ \E ok \in CasWeak(tail = old_tail[t]) :
       tail' = IF ok THEN Null ELSE tail
  /\ Goto(t, "push_ld_tail")
  /\ UNCHANGED <<config, arena, nodes, head, qmtx, locals, caller, ghost>>

\* empty queue: _tail.compare_exchange_weak( old_tail, new_node ), on failure continue
PushCasTail(t) ==
  /\ pc[t] = "push_cas_tail"
  /\ \E ok \in CasWeak(tail = old_tail[t]) :
       IF ok
       THEN /\ tail' = new_node[t]
            /\ IF old_head[t] = Null
               THEN /\ Goto(t, "push_cas_head")
                    /\ UNCHANGED <<locals, ret, ghost>>
               ELSE PushDone(t)
       ELSE /\ Goto(t, "push_ld_tail")
            /\ UNCHANGED <<tail, locals, ret, ghost>>
  /\ UNCHANGED <<config, arena, nodes, head, qmtx, data, data0, nextv>>

\* _head.compare_exchange_strong( old_head, new_node ), whatever it answers
PushCasHead(t) ==
  /\ pc[t] = "push_cas_head"
  /\ head' = IF head = old_head[t] THEN new_node[t] ELSE head
  /\ PushDone(t)
  /\ UNCHANGED <<config, arena, nodes, tail, qmtx, data, data0, nextv>>

\* old_tail_next = old_tail->_next.load(); not null: continue
PushLoadNext(t) ==
  /\ pc[t] = "push_ld_next"
  /\ old_next' = [old_next EXCEPT ![t] = node_next[old_tail[t]]]
  /\ Goto(t, IF node_next[old_tail[t]] # Null THEN "push_ld_tail" ELSE "push_cas_next")
  /\ UNCHANGED <<config, arena, nodes, queue, new_node, old_tail, old_head,
                 caller, ghost>>

\* old_tail->_next.compare_exchange_weak( old_tail_next, new_node ), on failure continue
PushCasNext(t) ==
  /\ pc[t] = "push_cas_next"
  /\ \E ok \in CasWeak(node_next[old_tail[t]] = old_next[t]) :
       IF ok
       THEN /\ node_next' = [node_next EXCEPT ![old_tail[t]] = new_node[t]]
            /\ Goto(t, "push_xchg_tail")
       ELSE /\ Goto(t, "push_ld_tail")
            /\ UNCHANGED node_next
  /\ UNCHANGED <<config, arena, node_data, queue, locals, caller, ghost>>

\* what push does once it has linked its node behind old_tail
PushAfterLink(t) ==
  /\ tail' = new_node[t]
  /\ UNCHANGED head

\* _tail.exchange( new_node ); return eSuccess
PushXchgTail(t) ==
  /\ pc[t] = "push_xchg_tail"
  /\ PushAfterLink(t)
  /\ PushDone(t)
  /\ UNCHANGED <<config, arena, nodes, qmtx, data, data0, nextv>>

(* ---------------------- _pop_imp_lockfree ------------------------------- *)
\* a pop that resets the caller's out parameter before it answers eEmpty
PopLoadHeadClobber(t) ==
  /\ pc[t] = "pop_ld_head"
  /\ IF head = Null
     THEN /\ Return(t, "Empty")
          /\ data' = [data EXCEPT ![t] = 0]
     ELSE /\ old_head' = [old_head EXCEPT ![t] = head]
          /\ Goto(t, "pop_ld_next")
          /\ UNCHANGED <<new_node, old_tail, old_next, ret, data>>
  /\ UNCHANGED <<config, arena, nodes, queue, data0, nextv, ghost>>

\* old_head = _head.load(); null: return eEmpty
PopLoadHead(t) ==
  /\ pc[t] = "pop_ld_head"
  /\ IF head = Null
     THEN /\ Return(t, "Empty")
     ELSE /\ old_head' = [old_head EXCEPT ![t] = head]
          /\ Goto(t, "pop_ld_next")
          /\ UNCHANGED <<new_node, old_tail, old_next, ret>>
  /\ UNCHANGED <<config, arena, nodes, queue, data, data0, nextv, ghost>>

\* old_head_next = old_head->_next.load()
PopLoadNext(t) ==
  /\ pc[t] = "pop_ld_next"
  /\ old_next' = [old_next EXCEPT ![t] = node_next[old_head[t]]]
  /\ Goto(t, "pop_cas_head")
  /\ UNCHANGED <<config, arena, nodes, queue, new_node, old_tail, old_head,
                 caller, ghost>>

\* _head.compare_exchange_weak( old_head, old_head_next ), on failure continue
PopCasHead(t) ==
  /\ pc[t] = "pop_cas_head"
  /\ \E ok \in CasWeak(head = old_head[t]) :
       IF ok
       THEN /\ head' = old_next[t]
            /\ popLog' = Append(popLog, 0)
            /\ popIdx' = [popIdx EXCEPT ![t] = Len(popLog) + 1]
            /\ Goto(t, "pop_rd_data")
       ELSE /\ Goto(t, "pop_ld_head")
            /\ UNCHANGED <<head, popLog, popIdx>>
  /\ UNCHANGED <<config, arena, nodes, tail, qmtx, locals, caller, pushLog>>

\* data = std::move( old_head->_data )
PopReadData(t) ==
  /\ pc[t] = "pop_rd_data"
  /\ data' = [data EXCEPT ![t] = node_data[old_head[t]]]
  /\ Goto(t, "pop_clr_next")
  /\ UNCHANGED <<config, arena, nodes, queue, locals, data0, ret, nextv, ghost>>

\* old_head->_next = nullptr, then destroy_node( old_head )
PopClearNext(t) ==
  /\ pc[t] = "pop_clr_next"
  /\ node_next' = [node_next EXCEPT ![old_head[t]] = Null]
  /\ Goto(t, "isfree")
  /\ UNCHANGED <<config, arena, node_data, queue, locals, caller, ghost>>


(* ---------------- _push_imp_default / _pop_imp_default ------------------ *)
\* a try_lock that never refuses: the queue lock excludes nobody
LockAlways(m) == TRUE

\* plug_mutex try_lock succeeds only on a free mutex (raw has no mutex: lock()
\* returns eNotImplemented and excludes nobody)
LockFree(m) == ~m

\* queue::lock(): do {} while ( !try_lock() )
QLock(t) ==
  /\ pc[t] \in {"push_lock", "pop_lock"}
  /\ IF has_mutex
     THEN /\ LockFree(qmtx)
          /\ qmtx' = TRUE
     ELSE UNCHANGED qmtx
  /\ Goto(t, IF pc[t] = "push_lock" THEN "alloc" ELSE "pop_head")
  /\ UNCHANGED <<config, arena, nodes, head, tail, locals, caller, ghost>>

\* a push that links the new node in front of the head instead of behind the tail
PushLinkFront(t) ==
  /\ pc[t] = "push_link"
  /\ node_next' = [node_next EXCEPT ![new_node[t]] = head]
  /\ head' = new_node[t]
  /\ Goto(t, "push_set_tail")
  /\ UNCHANGED <<config, arena, node_data, tail, qmtx, locals, caller, ghost>>

\* if ( _head == nullptr ) _head = new_node; else _tail->_next = new_node;
PushLink(t) ==
  /\ pc[t] = "push_link"
  /\ IF head = Null
     THEN /\ head' = new_node[t]
          /\ UNCHANGED node_next
     ELSE /\ node_next' = [node_next EXCEPT ![tail] = new_node[t]]
          /\ UNCHANGED head
  /\ Goto(t, "push_set_tail")
  /\ UNCHANGED <<config, arena, node_data, tail, qmtx, locals, caller, ghost>>

\* _tail = new_node; ret_value = eSuccess
PushSetTail(t) ==
  /\ pc[t] = "push_set_tail"
  /\ tail' = new_node[t]
  /\ ret' = [ret EXCEPT ![t] = "Success"]
  /\ pushLog' = Append(pushLog, Val(t, nextv[t]))
  /\ Goto(t, "push_unlock")
  /\ UNCHANGED <<config, arena, nodes, head, qmtx, locals, data, data0, nextv,
                 popLog, popIdx>>

\* if ( _head != nullptr ) { first_node = _head; _head = _head->_next; ... }
PopHead(t) ==
  /\ pc[t] = "pop_head"
  /\ IF head # Null
     THEN /\ old_head' = [old_head EXCEPT ![t] = head]
          /\ head' = node_next[head]
          /\ popLog' = Append(popLog, 0)
          /\ popIdx' = [popIdx EXCEPT ![t] = Len(popLog) + 1]
          /\ Goto(t, "pop_data")
          /\ UNCHANGED ret
     ELSE /\ ret' = [ret EXCEPT ![t] = "Empty"]
          /\ Goto(t, "pop_unlock")
          /\ UNCHANGED <<old_head, head, popLog, popIdx>>
  /\ UNCHANGED <<config, arena, nodes, tail, qmtx, new_node, old_tail, old_next,
                 data, data0, nextv, pushLog>>

\* data = std::move( first_node->_data ), then destroy_node( first_node )
PopData(t) ==
  /\ pc[t] = "pop_data"
  /\ data' = [data EXCEPT ![t] = node_data[old_head[t]]]
  /\ Goto(t, "isfree")
  /\ UNCHANGED <<config, arena, nodes, queue, locals, data0, ret, nextv, ghost>>

\* if ( _head == nullptr ) _tail = nullptr;
PopTail(t) ==
  /\ pc[t] = "pop_tail"
  /\ tail' = IF head = Null THEN Null ELSE tail
  /\ LogPop(t, ret[t], data[t])
  /\ Goto(t, "pop_unlock")
  /\ UNCHANGED <<config, arena, nodes, head, qmtx, locals, caller, pushLog>>

\* an unlock that is skipped when the push has failed
QUnlockKeep(t) ==
  /\ pc[t] \in {"push_unlock", "pop_unlock"}
  /\ qmtx' = IF has_mutex /\ ret[t] # "Failure" THEN FALSE ELSE qmtx
  /\ Return(t, ret[t])
  /\ UNCHANGED <<config, arena, nodes, head, tail, data, data0, nextv, ghost>>

\* queue::unlock(); return ret_value
QUnlock(t) ==
  /\ pc[t] \in {"push_unlock", "pop_unlock"}
  /\ qmtx' = IF has_mutex THEN FALSE ELSE qmtx
  /\ Return(t, ret[t])
  /\ UNCHANGED <<config, arena, nodes, head, tail, data, data0, nextv, ghost>>

(* --------------------------- specifications ----------------------------- *)
Calls(t)    == PushCall(t) \/ PopCall(t)
ArenaOps(t) == AllocLocked(t) \/ AllocSetInUse(t) \/ AllocConstruct(t)
                 \/ DeallocIsFree(t) \/ DeallocLocked(t)
LockFreeOps(t) ==
  \/ PushLoadTail(t) \/ PushLoadHead(t) \/ PushFixTail(t) \/ PushCasTail(t)
  \/ PushCasHead(t) \/ PushLoadNext(t) \/ PushCasNext(t) \/ PushXchgTail(t)
  \/ PopLoadHead(t) \/ PopLoadNext(t) \/ PopCasHead(t) \/ PopReadData(t)
  \/ PopClearNext(t)
DefaultOps(t) ==
  \/ QLock(t) \/ PushLink(t) \/ PushSetTail(t) \/ PopHead(t) \/ PopData(t)
  \/ PopTail(t) \/ QUnlock(t)

\* every backend, one thread that pushes and pops
Init ==
  /\ Init0
  /\ backend \in Backends
  /\ role = [t \in Threads |-> IF t = 1 THEN "both" ELSE "off"]
  /\ quota = [t \in Threads |-> IF t = 1 THEN MaxPush ELSE 0]
Next == \E t \in Threads : Calls(t) \/ ArenaOps(t) \/ LockFreeOps(t) \/ DefaultOps(t)
Spec == Init /\ [][Next]_vars

\* lock-free backend, one producer thread and one consumer thread
InitSPSC ==
  /\ Init0
  /\ backend = "lockfree"
  /\ role = [t \in Threads |-> IF t = 1 THEN "producer" ELSE "consumer"]
  /\ quota = [t \in Threads |-> IF t = 1 THEN MaxPushLF ELSE 0]
NextLF == \E t \in Threads : Calls(t) \/ ArenaOps(t) \/ LockFreeOps(t)
SpecSPSC == InitSPSC /\ [][NextLF]_vars

\* lock-free backend, two threads that push and pop
InitMPMC ==
  /\ Init0
  /\ backend = "lockfree"
  /\ role = [t \in Threads |-> "both"]
  /\ quota = [t \in Threads |-> IF t = 1 THEN MaxPushLF ELSE MaxPush2]
SpecMPMC == InitMPMC /\ [][NextLF]_vars

\* mutex and spinlock backends, two threads that push and pop
InitSer ==
  /\ Init0
  /\ backend \in {"mutex", "spinlock"}
  /\ role = [t \in Threads |-> "both"]
  /\ quota = [t \in Threads |-> MaxPushSer]
NextSer == \E t \in Threads : Calls(t) \/ ArenaOps(t) \/ DefaultOps(t)
SpecSer == InitSer /\ [][NextSer]_vars

(* -------------- core::arena_allocator used on its own ------------------- *)
\* what no arena call touches: the queue, its callers' data and the registry
aside == <<backend, role, quota, registry, mbox, uniq, prefetch, more, nodes, queue, data, data0, ghost>>

\* template arguments of the arenas of a run
InitialSizes == {ChunkSize, ChunkSize + 1}
SizeLimits == {0, ChunkSize, ChunkSize + 1}
Thresholds == {0, 1}

\* chunks the constructor adds: while ( max_length() < initial_size ) add_mem_chuck()
RECURSIVE InitChunks(_, _)
InitChunks(ch, initial) ==
  IF ChunkSize * ch < initial /\ RawCanAllocate(ch) THEN InitChunks(ch + 1, initial) ELSE ch

\* the slots after n calls of add_mem_chuck on an empty arena
RECURSIVE Construct(_)
Construct(n) ==
  IF n = 0
  THEN [chunks |-> 0, next_free |-> Null,
        slot_next |-> [s \in Slots |-> Null], slot_used |-> [s \in Slots |-> FALSE]]
  ELSE LET a == Construct(n - 1)
       IN  AddChunk(a.chunks, a.next_free, a.slot_next, a.slot_used)

\* an arena after its constructor, for each choice of the template arguments
ArenaConstructed ==
  /\ size_limit \in SizeLimits
  /\ threshold \in Thresholds
  /\ \E initial \in InitialSizes :
       LET a == Construct(InitChunks(0, initial))
       IN  /\ chunks = a.chunks
           /\ next_free = a.next_free
           /\ slot_next = a.slot_next
           /\ slot_used = a.slot_used
           /\ free_slots = ChunkSize * a.chunks
           /\ max_length = ChunkSize * a.chunks

\* the free list: the slots met from _next_free along memory_slot::next()
RECURSIVE FreeChain(_, _)
FreeChain(p, k) ==
  IF p = Null \/ k = 0 THEN <<>> ELSE <<p>> \o FreeChain(slot_next[p], k - 1)

FreeList == FreeChain(next_free, Cardinality(Slots) + 1)

\* a thread calls allocate()
ArenaAllocateCall(t) ==
  /\ pc[t] = "idle"
  /\ role[t] \in {"client", "tester"}
  /\ nextv[t] < quota[t]
  /\ nextv' = [nextv EXCEPT ![t] = @ + 1]
  /\ ret' = [ret EXCEPT ![t] = "none"]
  /\ ptr' = [ptr EXCEPT ![t] = Null]
  /\ Goto(t, IF backend = "lockfree" THEN "l_alloc" ELSE "a_alloc")
  /\ UNCHANGED <<aside, arena, locals, size_limit, threshold, sem, pnext, own, freed>>

\* pointers a thread may hand to deallocate: its own; a tester also null and,
\* once more, the pointer of the deallocate call it has just made
Deallocatable(t) ==
  own[t] \cup (IF role[t] = "tester"
               THEN {Null} \cup (IF ret[t] \in {"Success", "DoubleFree"} THEN {ptr[t]} ELSE {})
               ELSE {})

\* a thread calls deallocate( userdata )
ArenaDeallocateCall(t) ==
  /\ pc[t] = "idle"
  /\ role[t] \in {"client", "tester"}
  /\ nextv[t] < quota[t]
  /\ \E p \in Deallocatable(t) : ptr' = [ptr EXCEPT ![t] = p]
  /\ nextv' = [nextv EXCEPT ![t] = @ + 1]
  /\ ret' = [ret EXCEPT ![t] = "none"]
  /\ Goto(t, IF backend = "lockfree" THEN "l_dealloc" ELSE "a_dealloc")
  /\ UNCHANGED <<aside, arena, locals, size_limit, threshold, sem, pnext, own, freed>>


\* _sem_th_alloc.release(), the count kept within MaxSem
Release(n) == IF n < MaxSem THEN n + 1 ELSE n

\* drop pointer p from the record of deallocated pointers
Forget(q, p) == SelectSeq(q, LAMBDA x : x # p)

\* allocate, under _mtx_next: wake the worker when the free slots are at the
\* threshold, add a chunk if grow, then take the head of the free list
ArenaAllocTake(t, grow) ==
  /\ pc[t] = "a_alloc"
  /\ LET a    == IF grow THEN AddChunk(chunks, next_free, slot_next, slot_used)
                 ELSE [chunks |-> chunks, next_free |-> next_free,
                       slot_next |-> slot_next, slot_used |-> slot_used]
         fs   == IF grow THEN free_slots + ChunkSize ELSE free_slots
         p    == a.next_free
     IN  /\ chunks' = a.chunks
         /\ slot_used' = a.slot_used
         /\ slot_next' = a.slot_next
         /\ max_length' = IF grow THEN ChunkSize * a.chunks ELSE max_length
         /\ sem' = IF threshold > 0 /\ free_slots <= threshold THEN Release(sem) ELSE sem
         /\ IF p = Null
            THEN /\ next_free' = Null
                 /\ free_slots' = fs
                 /\ Return(t, "null")
                 /\ UNCHANGED <<ptr, freed>>
            ELSE /\ next_free' = a.slot_next[p]
                 /\ free_slots' = fs - 1
                 /\ ptr' = [ptr EXCEPT ![t] = p]
                 /\ freed' = Forget(freed, p)
                 /\ Goto(t, "a_inuse")
                 /\ UNCHANGED <<locals, ret>>
  /\ UNCHANGED <<aside, size_limit, threshold, pnext, own, nextv>>

\* allocate that never adds a chunk
ArenaAllocLockedNoGrowth(t) == ArenaAllocTake(t, FALSE)

\* allocate, under _mtx_next: without a worker (alloc_threshold == 0) an empty
\* free list makes it add a chunk, whatever size_limit is
ArenaAllocLocked(t) ==
  ArenaAllocTake(t, threshold = 0 /\ next_free = Null /\ RawCanAllocate(chunks))

\* allocate, after the unlock: pCurrSlot->set_in_use(), construct, return
ArenaAllocSetInUse(t) ==
  /\ pc[t] = "a_inuse"
  /\ slot_used' = [slot_used EXCEPT ![ptr[t]] = TRUE]
  /\ slot_next' = [slot_next EXCEPT ![ptr[t]] = Null]
  /\ own' = [own EXCEPT ![t] = @ \cup {ptr[t]}]
  /\ Return(t, "pointer")
  /\ UNCHANGED <<aside, chunks, next_free, free_slots, max_length,
                 size_limit, threshold, sem, ptr, pnext, freed, nextv>>

\* deallocate before the lock: a null pointer is answered with onNull; after the
\* destructor a slot found free (if the slot is looked at) is answered DoubleFree
ArenaDeallocTests(t, onNull, looks) ==
  /\ pc[t] = "a_dealloc"
  /\ IF ptr[t] = Null
     THEN Return(t, onNull)
     ELSE IF looks /\ ~slot_used[ptr[t]]
          THEN Return(t, "DoubleFree")
          ELSE Goto(t, "a_free") /\ UNCHANGED <<locals, ret>>
  /\ UNCHANGED <<aside, arena, direct, nextv>>

\* deallocate answering eSuccess to a null pointer
ArenaDeallocCheckNullOk(t) == ArenaDeallocTests(t, "Success", TRUE)

\* deallocate without the is_free test
ArenaDeallocCheckBlind(t) == ArenaDeallocTests(t, "NullPointer", FALSE)

\* deallocate before the lock: the null test, the destructor, the is_free test
ArenaDeallocCheck(t) == ArenaDeallocTests(t, "NullPointer", TRUE)

\* deallocate's locked section linking the slot behind the head of the free list
ArenaDeallocLockedBehind(t) ==
  /\ pc[t] = "a_free"
  /\ slot_used' = [slot_used EXCEPT ![ptr[t]] = FALSE]
  /\ IF next_free = Null
     THEN /\ slot_next' = [slot_next EXCEPT ![ptr[t]] = Null]
          /\ next_free' = ptr[t]
     ELSE /\ slot_next' = [slot_next EXCEPT ![ptr[t]] = slot_next[next_free],
                                            ![next_free] = ptr[t]]
          /\ next_free' = next_free
  /\ free_slots' = free_slots + 1
  /\ own' = [own EXCEPT ![t] = @ \ {ptr[t]}]
  /\ freed' = <<ptr[t]>> \o Forget(freed, ptr[t])
  /\ Return(t, "Success")
  /\ UNCHANGED <<aside, chunks, max_length, size_limit, threshold, sem, ptr, pnext, nextv>>

\* deallocate, under _mtx_next: set_free( _next_free ), _next_free = pSlot, ++_free_slots
ArenaDeallocLocked(t) ==
  /\ pc[t] = "a_free"
  /\ slot_used' = [slot_used EXCEPT ![ptr[t]] = FALSE]
  /\ slot_next' = [slot_next EXCEPT ![ptr[t]] = next_free]
  /\ next_free' = ptr[t]
  /\ free_slots' = free_slots + 1
  /\ own' = [own EXCEPT ![t] = @ \ {ptr[t]}]
  /\ freed' = <<ptr[t]>> \o Forget(freed, ptr[t])
  /\ Return(t, "Success")
  /\ UNCHANGED <<aside, chunks, max_length, size_limit, threshold, sem, ptr, pnext, nextv>>

\* the prefetch thread, woken by _sem_th_alloc: adds a chunk unless size_limit is reached
WorkerAdd ==
  /\ threshold > 0
  /\ sem > 0
  /\ sem' = sem - 1
  /\ IF (max_length < size_limit \/ size_limit = 0) /\ RawCanAllocate(chunks)
     THEN LET a == AddChunk(chunks, next_free, slot_next, slot_used)
          IN  /\ chunks' = a.chunks
              /\ next_free' = a.next_free
              /\ slot_next' = a.slot_next
              /\ slot_used' = a.slot_used
              /\ free_slots' = free_slots + ChunkSize
              /\ max_length' = ChunkSize * a.chunks
              /\ freed' = <<>>
     ELSE UNCHANGED <<arena, freed>>
  /\ UNCHANGED <<aside, size_limit, threshold, ptr, pnext, own, pc, locals, caller>>

\* clear(), given what it leaves in _next_free: destructors of the slots in
\* use, every chunk released, counters zeroed; not thread safe, so called
\* with no other call in flight, and the pointers handed out die with it
ArenaClearTo(t, nf) ==
  /\ role[t] = "tester"
  /\ \A u \in Threads : pc[u] = "idle"
  /\ nextv[t] < quota[t]
  /\ nextv' = [nextv EXCEPT ![t] = @ + 1]
  /\ chunks' = 0
  /\ max_length' = 0
  /\ free_slots' = 0
  /\ next_free' = nf
  /\ slot_next' = [s \in Slots |-> Null]
  /\ slot_used' = [s \in Slots |-> FALSE]
  /\ own' = [u \in Threads |-> {}]
  /\ ptr' = [u \in Threads |-> Null]
  /\ freed' = <<>>
  /\ ret' = [ret EXCEPT ![t] = "void"]
  /\ UNCHANGED <<aside, size_limit, threshold, sem, pnext, pc, locals>>

\* clear() that forgets to reset _next_free
ArenaClearKeepHead(t) == ArenaClearTo(t, next_free)

\* clear()
ArenaClear(t) == ArenaClearTo(t, Null)

ArenaCalls(t) == ArenaAllocateCall(t) \/ ArenaDeallocateCall(t)
CoreArenaOps(t) ==
  ArenaAllocLocked(t) \/ ArenaAllocSetInUse(t) \/ ArenaDeallocCheck(t) \/ ArenaDeallocLocked(t)

\* one thread on a core arena; it also passes null and stale pointers to deallocate
InitArena1 ==
  /\ ArenaConstructed
  /\ backend = "mutex"
  /\ role = [t \in Threads |-> IF t = 1 THEN "tester" ELSE "off"]
  /\ quota = [t \in Threads |-> IF t = 1 THEN MaxCalls1 ELSE 0]
  /\ QueueInit0 /\ DirectInit0 /\ RegistryInit0 /\ ExtraInit0

NextArena == WorkerAdd \/ \E t \in Threads : ArenaCalls(t) \/ CoreArenaOps(t)
NextArena1 == NextArena \/ \E t \in Threads : ArenaClear(t)
SpecArena1 == InitArena1 /\ [][NextArena1]_vars

\* two threads on a core arena, each deallocating only what it was given
InitArena ==
  /\ ArenaConstructed
  /\ backend = "mutex"
  /\ role = [t \in Threads |-> "client"]
  /\ quota = [t \in Threads |-> MaxCalls]
  /\ QueueInit0 /\ DirectInit0 /\ RegistryInit0 /\ ExtraInit0

SpecArena == InitArena /\ [][NextArena]_vars

(* ------------- lock_free::arena_allocator used on its own ---------------- *)
\* allocate: alloc_threshold > 0 wakes the worker at the threshold;
\* alloc_threshold == 0 calls add_mem_chuck() on an empty free list
LfAllocBegin(t) ==
  /\ pc[t] = "l_alloc"
  /\ sem' = IF threshold > 0 /\ free_slots <= threshold THEN Release(sem) ELSE sem
  /\ Goto(t, IF threshold = 0 /\ next_free = Null /\ RawCanAllocate(chunks)
             THEN "l_grow" ELSE "l_load")
  /\ UNCHANGED <<aside, arena, size_limit, threshold, ptr, pnext, own, freed, locals, caller>>

\* add_mem_chuck: the chunk's slots are chained and spliced in front of
\* _next_free by the compare-exchange loop
LfGrowSplice(t) ==
  /\ pc[t] = "l_grow"
  /\ IF RawCanAllocate(chunks)
     THEN LET a == AddChunk(chunks, next_free, slot_next, slot_used)
          IN  /\ chunks' = a.chunks
              /\ next_free' = a.next_free
              /\ slot_next' = a.slot_next
              /\ slot_used' = a.slot_used
              /\ Goto(t, "l_growcnt")
     ELSE /\ UNCHANGED <<chunks, next_free, slot_next, slot_used>>
          /\ Goto(t, "l_load")
  /\ UNCHANGED <<aside, free_slots, max_length, direct, locals, caller>>

\* add_mem_chuck, under _mtx_mem_chunks: _max_length and _free_slots
LfGrowCount(t) ==
  /\ pc[t] = "l_growcnt"
  /\ max_length' = max_length + ChunkSize
  /\ free_slots' = free_slots + ChunkSize
  /\ Goto(t, "l_load")
  /\ UNCHANGED <<aside, chunks, next_free, slot_next, slot_used, direct, locals, caller>>

\* allocate: pCurrSlot = _next_free.load()
LfAllocLoad(t) ==
  /\ pc[t] = "l_load"
  /\ ptr' = [ptr EXCEPT ![t] = next_free]
  /\ IF next_free = Null
     THEN Return(t, "null")
     ELSE Goto(t, "l_next") /\ UNCHANGED <<locals, ret>>
  /\ UNCHANGED <<aside, arena, size_limit, threshold, sem, pnext, own, freed, nextv>>

\* allocate: pCurrSlot->next(), the new value handed to the compare-exchange
LfAllocNext(t) ==
  /\ pc[t] = "l_next"
  /\ pnext' = [pnext EXCEPT ![t] = slot_next[ptr[t]]]
  /\ Goto(t, "l_cas")
  /\ UNCHANGED <<aside, arena, size_limit, threshold, sem, ptr, own, freed, locals, caller>>

\* allocate: _next_free.compare_exchange_weak( pCurrSlot, next ); a failure
\* reloads pCurrSlot, and a null pCurrSlot ends the call
LfAllocCas(t) ==
  /\ pc[t] = "l_cas"
  /\ \E ok \in CasWeak(next_free = ptr[t]) :
       IF ok
       THEN /\ next_free' = pnext[t]
            /\ freed' = Forget(freed, ptr[t])
            /\ Goto(t, "l_inuse")
            /\ UNCHANGED <<ptr, locals, ret>>
       ELSE /\ ptr' = [ptr EXCEPT ![t] = next_free]
            /\ IF next_free = Null
               THEN Return(t, "null")
               ELSE Goto(t, "l_next") /\ UNCHANGED <<locals, ret>>
            /\ UNCHANGED <<next_free, freed>>
  /\ UNCHANGED <<aside, chunks, free_slots, max_length, slot_next, slot_used,
                 size_limit, threshold, sem, pnext, own, nextv>>

\* allocate: pCurrSlot->set_in_use()
LfAllocSetInUse(t) ==
  /\ pc[t] = "l_inuse"
  /\ slot_used' = [slot_used EXCEPT ![ptr[t]] = TRUE]
  /\ slot_next' = [slot_next EXCEPT ![ptr[t]] = Null]
  /\ Goto(t, "l_count")
  /\ UNCHANGED <<aside, chunks, next_free, free_slots, max_length, direct, locals, caller>>

\* allocate: _free_slots decremented by its compare-exchange loop, construct,
\* return; free_slots stands for the unsigned counter modulo 2^32
LfAllocCount(t) ==
  /\ pc[t] = "l_count"
  /\ free_slots' = free_slots - 1
  /\ own' = [own EXCEPT ![t] = @ \cup {ptr[t]}]
  /\ Return(t, "pointer")
  /\ UNCHANGED <<aside, chunks, next_free, max_length, slot_next, slot_used,
                 size_limit, threshold, sem, ptr, pnext, freed, nextv>>

\* deallocate: destructor, pCurrNext = _next_free.load()
LfDeallocLoad(t) ==
  /\ pc[t] = "l_dealloc"
  /\ pnext' = [pnext EXCEPT ![t] = next_free]
  /\ Goto(t, "l_setfree")
  /\ UNCHANGED <<aside, arena, size_limit, threshold, sem, ptr, own, freed, locals, caller>>

\* deallocate: pSlot->set_free( pCurrNext )
LfDeallocSetFree(t) ==
  /\ pc[t] = "l_setfree"
  /\ slot_used' = [slot_used EXCEPT ![ptr[t]] = FALSE]
  /\ slot_next' = [slot_next EXCEPT ![ptr[t]] = pnext[t]]
  /\ Goto(t, "l_dcas")
  /\ UNCHANGED <<aside, chunks, next_free, free_slots, max_length, direct, locals, caller>>

\* deallocate: _next_free.compare_exchange_weak( pCurrNext, pSlot ); from its
\* success on the slot is the arena's again
LfDeallocCas(t) ==
  /\ pc[t] = "l_dcas"
  /\ \E ok \in CasWeak(next_free = pnext[t]) :
       IF ok
       THEN /\ next_free' = ptr[t]
            /\ own' = [own EXCEPT ![t] = @ \ {ptr[t]}]
            /\ freed' = <<ptr[t]>> \o Forget(freed, ptr[t])
            /\ Goto(t, "l_dcount")
            /\ UNCHANGED pnext
       ELSE /\ pnext' = [pnext EXCEPT ![t] = next_free]
            /\ Goto(t, "l_setfree")
            /\ UNCHANGED <<next_free, own, freed>>
  /\ UNCHANGED <<aside, chunks, free_slots, max_length, slot_next, slot_used,
                 size_limit, threshold, sem, ptr, locals, caller>>

\* deallocate: _free_slots incremented by its compare-exchange loop, return
LfDeallocCount(t) ==
  /\ pc[t] = "l_dcount"
  /\ free_slots' = free_slots + 1
  /\ Return(t, "void")
  /\ UNCHANGED <<aside, chunks, next_free, max_length, slot_next, slot_used, direct, nextv>>

LfArenaOps(t) ==
  \/ LfAllocBegin(t) \/ LfGrowSplice(t) \/ LfGrowCount(t)
  \/ LfAllocLoad(t) \/ LfAllocNext(t) \/ LfAllocCas(t) \/ LfAllocSetInUse(t) \/ LfAllocCount(t)
  \/ LfDeallocLoad(t) \/ LfDeallocSetFree(t) \/ LfDeallocCas(t) \/ LfDeallocCount(t)

\* two threads on a lock_free arena with synchronous growth and no size limit,
\* each deallocating only what it was given
InitLfArena ==
  /\ ArenaConstructed
  /\ size_limit = 0
  /\ threshold = 0
  /\ backend = "lockfree"
  /\ role = [t \in Threads |-> "client"]
  /\ quota = [t \in Threads |-> MaxCallsLF]
  /\ QueueInit0 /\ DirectInit0 /\ RegistryInit0 /\ ExtraInit0

NextLfArena == \E t \in Threads : ArenaCalls(t) \/ LfArenaOps(t)
SpecLfArena == InitLfArena /\ [][NextLfArena]_vars

(* ---------------- instances_table: the registry of arenas ---------------- *)
\* what the registry operations do not touch
offRegistry == <<backend, role, quota, direct, mbox, uniq, prefetch, more, arena, nodes, queue, pc, locals, caller, ghost>>

\* arena_allocator(): _ndx_instance( 0 ), then capture_instance_index() enters
\* fixed_lookup_table::add
RegConstruct(a) ==
  /\ rpc[a] = "none"
  /\ ndx' = [ndx EXCEPT ![a] = 0]
  /\ rcur' = [rcur EXCEPT ![a] = 0]
  /\ rpc' = [rpc EXCEPT ![a] = "scan"]
  /\ UNCHANGED <<offRegistry, reg, live>>

\* add: the loop's test of _array[ndx]; when no entry is null add returns false,
\* the assert stops a debug build and a build without asserts goes on with
\* _ndx_instance still 0
RegScan(a) ==
  /\ rpc[a] = "scan"
  /\ IF rcur[a] = RegItems
     THEN /\ \E asserts \in BOOLEAN :
               IF asserts
               THEN rpc' = [rpc EXCEPT ![a] = "aborted"] /\ UNCHANGED live
               ELSE rpc' = [rpc EXCEPT ![a] = "live"] /\ live' = live \cup {a}
          /\ UNCHANGED rcur
     ELSE /\ IF reg[rcur[a]] = Null
             THEN rpc' = [rpc EXCEPT ![a] = "write"] /\ UNCHANGED rcur
             ELSE rcur' = [rcur EXCEPT ![a] = @ + 1] /\ UNCHANGED rpc
          /\ UNCHANGED live
  /\ UNCHANGED <<offRegistry, reg, ndx>>

\* add that stores the value and forgets the caller's index
RegWriteNoIndex(a) ==
  /\ rpc[a] = "write"
  /\ reg' = [reg EXCEPT ![rcur[a]] = a]
  /\ live' = live \cup {a}
  /\ rpc' = [rpc EXCEPT ![a] = "live"]
  /\ UNCHANGED <<offRegistry, rcur, ndx>>

\* add: _array[ndx] = value; index = ndx; the constructor goes on
RegWrite(a) ==
  /\ rpc[a] = "write"
  /\ reg' = [reg EXCEPT ![rcur[a]] = a]
  /\ ndx' = [ndx EXCEPT ![a] = rcur[a]]
  /\ live' = live \cup {a}
  /\ rpc' = [rpc EXCEPT ![a] = "live"]
  /\ UNCHANGED <<offRegistry, rcur>>

\* ~arena_allocator(): release_instance_index() calls reset_at( _ndx_instance )
RegDestroy(a) ==
  /\ rpc[a] = "live"
  /\ reg' = [reg EXCEPT ![ndx[a]] = Null]
  /\ live' = live \ {a}
  /\ rpc' = [rpc EXCEPT ![a] = "dead"]
  /\ UNCHANGED <<offRegistry, ndx, rcur>>

\* arenas of one type constructed and destroyed by different threads
InitRegistry ==
  /\ Init0
  /\ backend = "mutex"
  /\ role = [t \in Threads |-> "off"]
  /\ quota = [t \in Threads |-> 0]

NextRegistry ==
  \E a \in Arenas : RegConstruct(a) \/ RegScan(a) \/ RegWrite(a) \/ RegDestroy(a)
SpecRegistry == InitRegistry /\ [][NextRegistry]_vars

(* ------------------------------ mailbox ---------------------------------- *)
\* timeouts a reader passes, in milliseconds
Timeouts == {0, 1}

\* entry of queue::push / queue::pop for the backend
PushEntry == IF backend = "lockfree" THEN "alloc" ELSE "push_lock"
PopEntry == IF backend = "lockfree" THEN "pop_ld_head" ELSE "pop_lock"

\* values written and not read yet
Unread == Len(pushLog) - Len(SelectSeq(popLog, LAMBDA v : v > 0))

\* mailbox::write( data ): queue_type::push, then _event.notify() on success;
\* notify changes no state of its own: it ends waits that the model lets end
\* at any moment before their timeout anyway (ReadWait)
WriteCall(t) ==
  /\ pc[t] = "idle"
  /\ role[t] = "mailer"
  /\ nextv[t] < quota[t]
  /\ nextv' = [nextv EXCEPT ![t] = @ + 1]
  /\ ret' = [ret EXCEPT ![t] = "none"]
  /\ seen' = [seen EXCEPT ![t] = IF Unread = 0 /\ \A u \in Threads : pc[u] = "idle"
                                 THEN -1 ELSE 0]
  /\ Goto(t, PushEntry)
  /\ UNCHANGED <<backend, role, quota, direct, registry, uniq, prefetch, more, tmo,
                 arena, nodes, queue, locals, data, data0, ghost>>

\* the value thread t's write has just left alone in the mailbox, else 0
Alone(t) ==
  IF seen[t] = -1 /\ ret[t] = "Success" /\ Unread = 1 /\ \A u \in Threads : pc[u] = "idle"
  THEN pushLog[Len(pushLog)] ELSE 0

\* mailbox::read( data, timeout ) is called
ReadCall(t) ==
  /\ pc[t] = "idle"
  /\ role[t] \in {"mailer", "reader"}
  /\ Len(popLog) < MaxPops
  /\ \E ms \in Timeouts : tmo' = [tmo EXCEPT ![t] = ms]
  /\ seen' = [u \in Threads |-> IF u = t THEN Alone(t) ELSE 0]
  /\ data0' = [data0 EXCEPT ![t] = data[t]]
  /\ ret' = [ret EXCEPT ![t] = "none"]
  /\ Goto(t, "rd_empty")
  /\ UNCHANGED <<backend, role, quota, direct, registry, uniq, prefetch, more,
                 arena, nodes, queue, locals, data, nextv, ghost>>

\* read that waits for the event whatever the mailbox holds
ReadEmptyAlwaysWaits(t) ==
  /\ pc[t] = "rd_empty"
  /\ backend \in {"mutex", "spinlock"} => ~qmtx
  /\ Goto(t, "rd_wait")
  /\ UNCHANGED <<config, arena, nodes, queue, locals, caller, ghost>>

\* read: empty(), that is size() == 0 with size() the arena's length() taken
\* under the queue's lock; a non-empty mailbox goes straight to pop
ReadEmpty(t) ==
  /\ pc[t] = "rd_empty"
  /\ backend \in {"mutex", "spinlock"} => ~qmtx
  /\ Goto(t, IF max_length - free_slots = 0 THEN "rd_wait" ELSE PopEntry)
  /\ UNCHANGED <<config, arena, nodes, queue, locals, caller, ghost>>

\* read: _event.wait( timeout ): wait_for answers timeout once the time has
\* passed, at once for timeout 0; before that the wait may end on a notify or
\* spuriously and answers eSignaled, and read goes on to pop
ReadWait(t) ==
  /\ pc[t] = "rd_wait"
  /\ \E res \in (IF tmo[t] > 0 THEN {"Timeout", "Signaled"} ELSE {"Timeout"}) :
       IF res = "Timeout"
       THEN Return(t, "Timeout")
       ELSE Goto(t, PopEntry) /\ UNCHANGED <<locals, ret>>
  /\ UNCHANGED <<config, arena, nodes, queue, data, data0, nextv, ghost>>

MailboxCalls(t) == WriteCall(t) \/ ReadCall(t) \/ ReadEmpty(t) \/ ReadWait(t)

\* a mailbox on any backend; thread 1 writes and reads, thread 2 reads
InitMailbox ==
  /\ Init0
  /\ backend \in Backends
  /\ role = [t \in Threads |-> IF t = 1 THEN "mailer" ELSE "reader"]
  /\ quota = [t \in Threads |-> IF t = 1 THEN MaxWrites ELSE 0]

NextMailbox ==
  \E t \in Threads : MailboxCalls(t) \/ ArenaOps(t) \/ LockFreeOps(t) \/ DefaultOps(t)
SpecMailbox == InitMailbox /\ [][NextMailbox]_vars

(* ------------------- progress of the lock-free queue --------------------- *)
\* a step of thread t inside push or pop
Running(t) == ArenaOps(t) \/ LockFreeOps(t)

\* a compare_exchange_weak of thread t that does not fail spuriously
CasSucceeds(t) ==
  \/ PushFixTail(t) /\ tail' = Null
  \/ PushCasTail(t) /\ tail' = new_node[t]
  \/ PushCasNext(t) /\ pc'[t] = "push_xchg_tail"
  \/ PopCasHead(t) /\ pc'[t] = "pop_rd_data"

\* two threads that push and pop on the lock-free queue
InitProgress ==
  /\ Init0
  /\ backend = "lockfree"
  /\ role = [t \in Threads |-> "both"]
  /\ quota = [t \in Threads |-> MaxPushLive]

\* thread 1 keeps taking steps while it is inside a call and its weak
\* compare-exchanges do not fail for ever on a matching value; thread 2 may
\* stop for good at any point
SpecProgress ==
  /\ InitProgress
  /\ [][NextLF]_vars
  /\ WF_vars(Running(1))
  /\ SF_vars(CasSucceeds(1))

(* ------------------------------ properties ------------------------------ *)
\* no push and no pop is in progress
Quiescent == \A t \in Threads : pc[t] = "idle"

\* every thread has made all the push calls of the run
ProducersDone == \A t \in Threads : nextv[t] = quota[t]

Range(s) == {s[i] : i \in DOMAIN s}

\* how many entries of s are v
Count(v, s) == Cardinality({i \in DOMAIN s : s[i] = v})

\* the values the pops that answered eSuccess returned, in the order of their head updates
Delivered == SelectSeq(popLog, LAMBDA v : v > 0)

\* the nodes met from n along _next, at most k of them
RECURSIVE Chain(_, _)
Chain(n, k) ==
  IF n = Null \/ k = 0 THEN <<>> ELSE <<n>> \o Chain(node_next[n], k - 1)

\* the nodes of the queue, from _head
Nodes == Chain(head, Cardinality(Slots))

\* the payloads of the queue, from _head
Content == [i \in DOMAIN Nodes |-> node_data[Nodes[i]]]

\* arena length(): _max_length - _free_slots, what queue::size() answers
Size == max_length - free_slots

\* allocate finds no free slot and cannot grow: it returns nullptr
ArenaRefuses ==
  next_free = Null /\ ~(AllocThreshold = 0 /\ RawCanAllocate(chunks))

(* C1: for every backend a single thread sees a sequential FIFO queue: the  *)
(* i-th pop that detaches a node answers eSuccess with the i-th value whose *)
(* push succeeded, and a pop answers eEmpty only when every value pushed    *)
(* has been popped, so a drain returns exactly the pushed sequence.         *)
C1_SingleThreadFifo ==
  /\ Len(popLog) <= Len(pushLog)
  /\ \A i \in DOMAIN popLog :
       \/ popLog[i] = pushLog[i]
       \/ popLog[i] = 0 /\ i = Len(popLog) /\ \E t \in Threads : popIdx[t] = i
  /\ \A t \in Threads :
       (pc[t] \in {"idle", "pop_unlock"} /\ ret[t] = "Empty") => popLog = pushLog

\* the lock-free queue drained by its one thread after pushes and pops were mixed
C1_Drained ==
  /\ backend = "lockfree"
  /\ Quiescent
  /\ ret[1] = "Empty"
  /\ popLog = pushLog
  /\ Len(popLog) = 3

(* C2: lock-free backend, one producer and one consumer: once the producer *)
(* has pushed 1..N, every push has succeeded and the queue is drained, the  *)
(* consumer's successful pops returned exactly 1, 2, .., N.                 *)
C2_SpscExact ==
  (Quiescent /\ ProducersDone /\ Len(pushLog) = quota[1] /\ head = Null)
    => Delivered = [i \in 1 .. quota[1] |-> Val(1, i)]

(* C3: lock-free backend, concurrent pushes and pops: in the order of the   *)
(* head updates, the values of one producer are popped in the order that    *)
(* producer pushed them.                                                    *)
C3_PerProducerOrder ==
  \A i, j \in DOMAIN popLog :
    (i < j /\ popLog[i] > 0 /\ popLog[j] > 0
       /\ Producer(popLog[i]) = Producer(popLog[j]))
      => popLog[i] < popLog[j]

(* C4: lock-free backend: no value is returned by two successful pops.      *)
C4_NoDoubleDelivery ==
  \A v \in Range(Delivered) : Count(v, Delivered) = 1

(* C5: lock-free backend, producer and consumer: once the producers are     *)
(* done and the queue is drained, as many pops as pushes have succeeded and *)
(* the popped values are the pushed values, each as often as pushed.        *)
C5_Conservation ==
  (Quiescent /\ ProducersDone /\ head = Null)
    => /\ Len(Delivered) = Len(pushLog)
       /\ \A v \in Range(pushLog) \cup Range(Delivered) :
            Count(v, Delivered) = Count(v, pushLog)

(* C6: mutex and spinlock backends, several threads: the run is a          *)
(* sequential FIFO queue whose operations take effect while the queue lock  *)
(* is held: the i-th detached node carries the i-th value pushed, a pop     *)
(* answers eEmpty only when nothing pushed is left, and whenever the lock   *)
(* is free the queue holds exactly the values pushed and not yet popped,    *)
(* in push order.                                                           *)
C6_SerializedFifo ==
  /\ Len(popLog) <= Len(pushLog)
  /\ \A i \in DOMAIN popLog :
       \/ popLog[i] = pushLog[i]
       \/ popLog[i] = 0 /\ i = Len(popLog) /\ \E t \in Threads : popIdx[t] = i
  /\ \A t \in Threads :
       (pc[t] = "pop_unlock" /\ ret[t] = "Empty") => popLog = pushLog
  /\ ~qmtx => Content = SubSeq(pushLog, Len(popLog) + 1, Len(pushLog))

\* values of both producers have been popped while a thread waits for the lock
C6_Contended ==
  /\ qmtx
  /\ \E t \in Threads : pc[t] \in {"push_lock", "pop_lock"}
  /\ Len(Delivered) >= 2
  /\ Producer(Delivered[1]) # Producer(Delivered[2])

\* a pop that has found, or is about to find, _head null
PopOnEmpty(t) == head = Null /\ pc[t] \in {"pop_ld_head", "pop_lock", "pop_head"}

\* what no step of such a pop touches
Untouched == UNCHANGED <<head, tail, arena, nodes, data>>

(* C7: every step of a pop on an empty queue leaves head, tail, the arena,  *)
(* the nodes and the caller's out parameter as they are, and the pop        *)
(* answers eEmpty with the out parameter at the value it had at the call.   *)
C7_PopOnEmpty ==
  [][\A t \in Threads :
       /\ (PopOnEmpty(t) /\ pc'[t] # pc[t])
            => /\ Untouched
               /\ data'[t] = data0[t]
               /\ pc'[t] \in {"pop_head", "pop_unlock", "idle"}
               /\ pc'[t] \in {"pop_unlock", "idle"} => ret'[t] = "Empty"
       /\ (pc[t] = "pop_unlock" /\ ret[t] = "Empty" /\ pc'[t] # pc[t])
            => /\ Untouched
               /\ data'[t] = data0[t]
               /\ pc'[t] = "idle"
               /\ ret'[t] = "Empty"]_vars

\* a serialized pop has answered eEmpty to a caller whose out parameter held a value
C7_EmptyAnswered ==
  /\ backend = "mutex"
  /\ pc[1] = "idle"
  /\ ret[1] = "Empty"
  /\ data[1] = data0[1]
  /\ data[1] > 0

\* what a refused push leaves alone: head, tail, every next link and size()
Unpushed == UNCHANGED <<head, tail, node_next>> /\ Size' = Size

(* C8: push answers eFailure exactly when allocate returns nullptr, and no  *)
(* step of such a push changes head, tail, a next link or size(); the       *)
(* serialized backends return with the queue lock released.                 *)
C8_PushFailure ==
  [][\A t \in Threads :
       /\ (ret'[t] = "Failure" /\ ret[t] # "Failure")
            => pc[t] = "alloc" /\ ArenaRefuses
       /\ (pc[t] = "push_lock" /\ ArenaRefuses /\ pc'[t] # pc[t]) => Unpushed
       /\ (pc[t] = "alloc" /\ ArenaRefuses /\ pc'[t] # pc[t])
            => /\ ret'[t] = "Failure"
               /\ pc'[t] \in {"push_unlock", "idle"}
               /\ Unpushed
       /\ (pc[t] = "push_unlock" /\ ret[t] = "Failure" /\ pc'[t] # pc[t])
            => /\ ret'[t] = "Failure"
               /\ pc'[t] = "idle"
               /\ ~qmtx'
               /\ Unpushed]_vars

\* a push on a full spinlock queue has answered eFailure
C8_Refused ==
  /\ backend = "spinlock"
  /\ pc[1] = "idle"
  /\ ret[1] = "Failure"
  /\ ~qmtx
  /\ Len(Nodes) = Cardinality(Slots)

(* C9: in a quiescent state, if head is null then tail is null; otherwise   *)
(* tail is reachable from head and tail's next is null.                     *)
C9_QuiescentChain ==
  Quiescent =>
    IF head = Null THEN tail = Null
    ELSE tail \in Range(Nodes) /\ node_next[tail] = Null

(* C10: lock-free backend: every node reachable from head is in use in the  *)
(* arena.                                                                   *)
C10_ReachableInUse == \A n \in Range(Nodes) : slot_used[n]

(* C11: at every quiescent moment size(), the arena's in-use count, is the  *)
(* number of values a drain by repeated pop would return before eEmpty, so  *)
(* empty() is true exactly when pop would answer eEmpty.                    *)
C11_SizeIsDrainCount ==
  Quiescent => (Size = Len(Nodes) /\ (Size = 0 <=> head = Null))


\* slots marked IN_USE among those of the chunks the arena holds
InUseSlots == {s \in Slots : s <= ChunkSize * chunks /\ slot_used[s]}

\* C12: whenever no arena operation is in flight, length() is the number of
\* IN_USE slots, free_slots() is the number of slots on the free list, the two
\* add up to max_length(), and max_length() is chunk_size times the chunks held
C12_QuiescentAccounting ==
  Quiescent =>
    /\ Size = Cardinality(InUseSlots)
    /\ free_slots = Len(FreeList)
    /\ Size + free_slots = max_length
    /\ max_length = ChunkSize * chunks

\* C13: an allocate that finds the free list empty while size_limit > 0 is
\* reached (max_length() >= size_limit) returns null and leaves length() and
\* max_length() as they were
C13_LimitRefuses ==
  [][\A t \in Threads :
       (/\ pc[t] = "a_alloc"
        /\ pc'[t] # "a_alloc"
        /\ size_limit > 0
        /\ max_length >= size_limit
        /\ next_free = Null)
       => (/\ pc'[t] = "idle"
           /\ ret'[t] = "null"
           /\ Size' = Size
           /\ max_length' = max_length)]_vars

\* C14: with size_limit > 0, max_length() never exceeds size_limit, whether the
\* chunks were added by the constructor, by allocate or by the prefetch thread
C14_HardCeiling == size_limit > 0 => max_length <= size_limit

\* C15: in single-threaded use, while the arena does not grow, allocate returns
\* the pointer deallocated most recently among those not handed out again, so
\* pointers deallocated in the order d1 .. dk come back in the order dk .. d1
C15_LifoReuse ==
  [][\A t \in Threads :
       (/\ pc[t] = "a_alloc"
        /\ pc'[t] = "a_inuse"
        /\ chunks' = chunks
        /\ freed # <<>>)
       => (ptr'[t] = Head(freed) /\ freed' = Tail(freed))]_vars

\* slots 1 and 2 were deallocated in this order and allocate has just returned 2
C15_SecondComesFirst ==
  /\ pc[1] = "a_inuse"
  /\ ptr[1] = 2
  /\ freed = <<1>>
  /\ own[1] = {}

\* pointers handed out by allocate and not yet taken back by deallocate
Allocated ==
  UNION {own[t] : t \in Threads} \cup {ptr[t] : t \in {u \in Threads : pc[u] \in {"a_inuse", "l_inuse", "l_count"}}}

\* C16: with size_limit = 0 and alloc_threshold = 0, an allocate that finds the
\* free list empty adds one chunk and returns a pointer while the raw allocator
\* succeeds, max_length() growing by chunk_size; and no allocate returns a
\* pointer that is currently allocated
C16_SyncGrowth ==
  [][\A t \in Threads :
       (pc[t] = "a_alloc" /\ pc'[t] # "a_alloc")
       => /\ (size_limit = 0 /\ threshold = 0 /\ next_free = Null /\ RawCanAllocate(chunks))
             => (/\ pc'[t] = "a_inuse"
                 /\ ptr'[t] # Null
                 /\ chunks' = chunks + 1
                 /\ max_length' = max_length + ChunkSize)
          /\ pc'[t] = "a_inuse" => ptr'[t] \notin Allocated]_vars

\* an arena built with one chunk has grown under an allocate that found both
\* slots held by the threads, and hands out the first slot of the new chunk
C16_GrewOnDemand ==
  /\ size_limit = 0 /\ threshold = 0
  /\ chunks = 2
  /\ \E t \in Threads :
       /\ pc[t] = "a_inuse"
       /\ ptr[t] = FirstSlot(2)
       /\ free_slots = ChunkSize - 1
       /\ UNION {own[u] : u \in Threads} = {1, 2}

C18_DoubleFree ==
  [][\A t \in Threads :
       /\ (pc[t] = "a_dealloc" /\ ptr[t] \in own[t] /\ pc'[t] # "a_dealloc")
          => pc'[t] = "a_free"
       /\ (pc[t] = "a_free" /\ pc'[t] # "a_free")
          => (pc'[t] = "idle" /\ ret'[t] = "Success")
       /\ (pc[t] = "a_dealloc" /\ ptr[t] \notin own[t] \cup {Null} /\ pc'[t] # "a_dealloc")
          => (/\ pc'[t] = "idle"
              /\ ret'[t] = "DoubleFree"
              /\ UNCHANGED <<next_free, free_slots, max_length>>)]_vars

\* a thread got DoubleFree for the pointer it had deallocated just before
C18_SecondRefused ==
  \E t \in Threads :
    /\ pc[t] = "idle"
    /\ ret[t] = "DoubleFree"
    /\ ptr[t] # Null
    /\ next_free = ptr[t]

\* C19: on the lock-free free list, with every thread deallocating only pointers
\* it owns, no slot is in the hands of two owners (the pointers held, and those
\* an allocate is about to return, are pairwise distinct) and no slot on the
\* free list is IN_USE or held
C19_NoAba ==
  /\ \A t, u \in Threads : t # u => own[t] \cap own[u] = {}
  /\ \A t \in Threads :
       pc[t] \in {"l_inuse", "l_count"}
       => /\ ptr[t] \notin UNION {own[u] : u \in Threads}
          /\ \A u \in Threads \ {t} : pc[u] \in {"l_inuse", "l_count"} => ptr[u] # ptr[t]
  /\ \A i \in DOMAIN FreeList :
       ~slot_used[FreeList[i]] /\ FreeList[i] \notin UNION {own[u] : u \in Threads}

\* C20: any two live arenas of the same type hold different registry indices,
\* and the entry at a live arena's index references that arena
C20_RegistryUnique ==
  /\ \A a, b \in live : a # b => ndx[a] # ndx[b]
  /\ \A a \in live : reg[ndx[a]] = a

\* capacity(), in units of memory_required_per_chunk
Capacity == chunks

\* an arena holding nothing: no chunk, null free-list head, counters at zero
Cleared ==
  /\ chunks = 0 /\ Capacity = 0
  /\ next_free = Null
  /\ max_length = 0 /\ free_slots = 0 /\ Size = 0

\* C21: after clear() on a quiescent arena max_length, free_slots, capacity and
\* length are 0, the free-list head is null and no chunk is held; a clear() of an
\* arena already cleared changes nothing
C21_ClearIdempotent ==
  [][\A t \in Threads :
       (pc[t] = "idle" /\ pc'[t] = "idle" /\ nextv'[t] = nextv[t] + 1)
       => (Cleared' /\ (Cleared => arena' = arena))]_vars

\* clear() has just returned on an arena whose allocations had brought the
\* free slots down to the threshold
C21_ClearedAfterUse ==
  /\ Cleared
  /\ pc[1] = "idle"
  /\ ret[1] = "void"
  /\ sem = 1

\* C22: a read on a mailbox that is empty and stays empty during the whole call
\* (here: no write was ever begun) answers Timeout, whatever its timeout
C22_EmptyReadTimesOut ==
  (\A u \in Threads : nextv[u] = 0)
  => \A t \in Threads : (pc[t] = "idle" /\ ret[t] # "none") => ret[t] = "Timeout"

\* C23: a read called when a completed write has left its value alone in the
\* mailbox, with no other reader stepping in, never waits on the event and
\* returns Success with that value
C23_ReadAfterWrite ==
  \A t \in Threads :
    seen[t] > 0
    => /\ pc[t] # "rd_wait"
       /\ pc[t] = "idle" => (ret[t] = "Success" /\ data[t] = seen[t])

\* the second value written was read back by the next read
C23_ReadBack ==
  /\ pc[1] = "idle"
  /\ seen[1] = Val(1, 2)
  /\ ret[1] = "Success"
  /\ data[1] = Val(1, 2)

\* C24: the lock-free queue is lock-free: a thread that keeps taking steps
\* inside push or pop completes its call (the other thread, which makes finitely
\* many calls, may be suspended for ever anywhere inside its own)
C24_LockFree == (pc[1] # "idle") ~> (pc[1] = "idle")

(* --------------------------- core::unique_ptr ---------------------------- *)
\* unique_ptr::auto_delete(): test_flag( _ptr, DESTROY ), _flags & DESTROY
auto_delete(p) == (p.flags \div DESTROY) % 2 = 1

\* unique_ptr::auto_delete( autodelete ): set_flag ( |= ) or unset_flag ( &= ~ ) of DESTROY
set_auto_delete(p, autodelete) ==
  [p EXCEPT !.flags = IF autodelete
                      THEN (IF auto_delete(p) THEN @ ELSE @ + DESTROY)
                      ELSE (IF auto_delete(p) THEN @ - DESTROY ELSE @)]

\* unique_ptr::release() that keeps what it held
release_kept(p) == [ret |-> p.addr, obj |-> p]

\* unique_ptr::release(): the held pointer is returned, the address is set to
\* nullptr and every flag is cleared
release(p) == [ret |-> p.addr, obj |-> [p EXCEPT !.addr = Null, !.flags = 0]]

\* heap objects no unique_ptr of the run holds
FreshObjs == (1 .. MaxObjs) \ ({up[p].addr : p \in 1 .. MaxPtrs} \cup {sp[s] : s \in 1 .. MaxStd})

\* std::make_unique into an empty std::unique_ptr
StdMake(s) ==
  /\ sp[s] = Null
  /\ \E a \in FreshObjs : sp' = [sp EXCEPT ![s] = a]
  /\ uop' = [op |-> "make", dst |-> s, src |-> 0, arg |-> TRUE]
  /\ UNCHANGED <<backend, role, quota, direct, registry, mbox, prefetch, more, up,
                 arena, nodes, queue, pc, locals, caller, ghost>>

\* the constructors of unique_ptr: default, from a raw pointer, from a
\* std::unique_ptr (which is released), from another unique_ptr (whose pointer
\* and DESTROY flag are read before it is released)
UpConstruct(d) ==
  /\ ~up[d].made
  /\ \/ /\ up' = [up EXCEPT ![d] = [made |-> TRUE, addr |-> Null, flags |-> 0]]
        /\ uop' = [op |-> "ctor", dst |-> d, src |-> 0, arg |-> FALSE]
        /\ UNCHANGED sp
     \/ \E a \in FreshObjs, autodelete \in BOOLEAN :
          /\ up' = [up EXCEPT ![d] = [made |-> TRUE, addr |-> a,
                                      flags |-> IF autodelete THEN DESTROY ELSE 0]]
          /\ uop' = [op |-> "ctor_raw", dst |-> d, src |-> 0, arg |-> autodelete]
          /\ UNCHANGED sp
     \/ \E s \in 1 .. MaxStd, autodelete \in BOOLEAN :
          /\ up' = [up EXCEPT ![d] = [made |-> TRUE, addr |-> sp[s],
                                      flags |-> IF autodelete THEN DESTROY ELSE 0]]
          /\ sp' = [sp EXCEPT ![s] = Null]
          /\ uop' = [op |-> "ctor_std", dst |-> d, src |-> s, arg |-> autodelete]
     \/ \E s \in 1 .. MaxPtrs :
          /\ up[s].made
          /\ up' = [up EXCEPT ![d] = [made |-> TRUE, addr |-> up[s].addr,
                                      flags |-> IF auto_delete(up[s]) THEN DESTROY ELSE 0],
                              ![s] = release(up[s]).obj]
          /\ uop' = [op |-> "ctor_move", dst |-> d, src |-> s, arg |-> TRUE]
          /\ UNCHANGED sp
  /\ UNCHANGED <<backend, role, quota, direct, registry, mbox, prefetch, more,
                 arena, nodes, queue, pc, locals, caller, ghost>>

\* operator= from a raw pointer, from a std::unique_ptr and from another
\* unique_ptr, statement by statement; the object held before is not deleted
UpAssign(d) ==
  /\ up[d].made
  /\ \/ \E a \in FreshObjs :
          /\ up' = [up EXCEPT ![d] = [set_auto_delete(@, TRUE) EXCEPT !.addr = a]]
          /\ uop' = [op |-> "assign_raw", dst |-> d, src |-> 0, arg |-> TRUE]
          /\ UNCHANGED sp
     \/ \E s \in 1 .. MaxStd :
          /\ up' = [up EXCEPT ![d] = [set_auto_delete(@, TRUE) EXCEPT !.addr = sp[s]]]
          /\ sp' = [sp EXCEPT ![s] = Null]
          /\ uop' = [op |-> "assign_std", dst |-> d, src |-> s, arg |-> TRUE]
     \/ \E s \in 1 .. MaxPtrs :
          /\ up[s].made
          /\ LET u1 == [up EXCEPT ![d] = set_auto_delete(@, auto_delete(up[s]))]
                 r  == release(u1[s])
                 u2 == [u1 EXCEPT ![s] = r.obj]
             IN  up' = [u2 EXCEPT ![d].addr = r.ret]
          /\ uop' = [op |-> "assign_move", dst |-> d, src |-> s, arg |-> TRUE]
          /\ UNCHANGED sp
  /\ UNCHANGED <<backend, role, quota, direct, registry, mbox, prefetch, more,
                 arena, nodes, queue, pc, locals, caller, ghost>>

\* ~unique_ptr(): the object is deleted when DESTROY is set and the pointer is
\* not null; the unique_ptr is gone either way
UpDestroy(d) ==
  /\ up[d].made
  /\ up' = [up EXCEPT ![d] = [made |-> FALSE, addr |-> Null, flags |-> 0]]
  /\ uop' = [op |-> IF auto_delete(up[d]) /\ up[d].addr # Null THEN "dtor_delete" ELSE "dtor",
             dst |-> d, src |-> 0, arg |-> FALSE]
  /\ UNCHANGED <<backend, role, quota, direct, registry, mbox, prefetch, more, sp,
                 arena, nodes, queue, pc, locals, caller, ghost>>

\* a program that makes, moves and destroys unique_ptr objects, as the test does
InitUnique ==
  /\ Init0
  /\ backend = "mutex"
  /\ role = [t \in Threads |-> "off"]
  /\ quota = [t \in Threads |-> 0]

NextUnique ==
  \/ \E s \in 1 .. MaxStd : StdMake(s)
  \/ \E d \in 1 .. MaxPtrs : UpConstruct(d) \/ UpAssign(d) \/ UpDestroy(d)
SpecUnique == InitUnique /\ [][NextUnique]_vars

\* C25 as stated: every move-construction and move-assignment, from a
\* core::unique_ptr or a std::unique_ptr, leaves the source's get() null, the
\* destination's get() the pointer the source held and the destination's
\* auto_delete the source's former flag, true for a std::unique_ptr source
C25_MoveTransfersAsStated ==
  [][ /\ uop'.op \in {"ctor_move", "assign_move"} =>
          /\ up'[uop'.src].addr = Null
          /\ up'[uop'.dst].addr = up[uop'.src].addr
          /\ auto_delete(up'[uop'.dst]) = auto_delete(up[uop'.src])
      /\ uop'.op \in {"ctor_std", "assign_std"} =>
          /\ sp'[uop'.src] = Null
          /\ up'[uop'.dst].addr = sp[uop'.src]
          /\ auto_delete(up'[uop'.dst]) ]_vars

\* C25: a move between two distinct objects leaves the source's get() null and
\* the destination's get() the pointer the source held; the destination's
\* auto_delete is the source's former flag for a core::unique_ptr source, true
\* for a move-assignment from a std::unique_ptr, and the constructor's
\* autodelete argument (true by default) for a construction from one
C25_MoveTransfers ==
  [][ /\ (uop'.op \in {"ctor_move", "assign_move"} /\ uop'.src # uop'.dst) =>
          /\ up'[uop'.src].addr = Null
          /\ up'[uop'.dst].addr = up[uop'.src].addr
          /\ auto_delete(up'[uop'.dst]) = auto_delete(up[uop'.src])
      /\ uop'.op \in {"ctor_std", "assign_std"} =>
          /\ sp'[uop'.src] = Null
          /\ up'[uop'.dst].addr = sp[uop'.src]
          /\ auto_delete(up'[uop'.dst]) = uop'.arg ]_vars

\* a move-assignment has handed an object that is not to be deleted to another unique_ptr
C25_MovedUnowned ==
  /\ uop.op = "assign_move"
  /\ uop.src # uop.dst
  /\ up[uop.src].addr = Null
  /\ up[uop.dst].addr # Null
  /\ ~auto_delete(up[uop.dst])

(* C26: lock-free queue: head == null with tail != null is the window of    *)
(* the first node's push between its tail and its head compare-and-swap,    *)
(* and a thread that resets tail to null in that window drops no pushed     *)
(* node: as long as no pop has detached a node, every value whose push has  *)
(* returned eSuccess is in the chain that starts at head.                   *)
C26_ResetDropsNothing ==
  popLog = <<>> => Range(pushLog) \subseteq Range(Content)

(* ------------- core::arena_allocator: the prefetch thread ---------------- *)
offPrefetch == <<backend, role, quota, registry, mbox, uniq, more, nodes, queue,
                 size_limit, threshold, pnext, pc, locals, caller, ghost>>

\* the thread's loop from its top or from inside acquire(): it leaves when
\* _th_alloc_exit is set at the top of the loop; else it takes the semaphore
\* and then leaves if _th_alloc_exit is set
WorkerAcquire ==
  \/ /\ wpc \in {"added", "skipped"}
     /\ dpc # "live"
     /\ wpc' = "done"
     /\ UNCHANGED <<offPrefetch, arena, sem, ptr, own, freed, dpc>>
  \/ /\ wpc \in {"acquire", "added", "skipped"}
     /\ sem > 0
     /\ sem' = sem - 1
     /\ wpc' = IF dpc # "live" THEN "done" ELSE "check"
     /\ UNCHANGED <<offPrefetch, arena, ptr, own, freed, dpc>>

\* the check without its size_limit == 0 case
WorkerCheckLimited ==
  /\ wpc = "check"
  /\ wpc' = IF max_length < size_limit /\ RawCanAllocate(chunks)
            THEN "splice" ELSE "skipped"
  /\ UNCHANGED <<offPrefetch, arena, sem, ptr, own, freed, dpc>>

\* max_length() < size_limit || size_limit == 0, then add_mem_chuck up to the
\* lock: the chunk is taken from the raw allocator and its slots are chained
WorkerCheck ==
  /\ wpc = "check"
  /\ wpc' = IF (max_length < size_limit \/ size_limit = 0) /\ RawCanAllocate(chunks)
            THEN "splice" ELSE "skipped"
  /\ UNCHANGED <<offPrefetch, arena, sem, ptr, own, freed, dpc>>

\* add_mem_chuck under _mtx_next: the chunk is spliced in front of _next_free
\* and recorded, _max_length and _free_slots are updated
WorkerSplice ==
  /\ wpc = "splice"
  /\ LET a == AddChunk(chunks, next_free, slot_next, slot_used)
     IN  /\ chunks' = a.chunks
         /\ next_free' = a.next_free
         /\ slot_next' = a.slot_next
         /\ slot_used' = a.slot_used
         /\ free_slots' = free_slots + ChunkSize
         /\ max_length' = ChunkSize * a.chunks
  /\ freed' = <<>>
  /\ wpc' = "added"
  /\ UNCHANGED <<offPrefetch, sem, ptr, own, dpc>>

\* ~arena_allocator: _th_alloc_exit.store( true ), _sem_th_alloc.release();
\* no call is in flight on an arena that is being destroyed
DtorSignal ==
  /\ dpc = "live"
  /\ threshold > 0
  /\ \A t \in Threads : pc[t] = "idle"
  /\ dpc' = "signalled"
  /\ sem' = Release(sem)
  /\ UNCHANGED <<offPrefetch, arena, ptr, own, freed, wpc>>

\* ~arena_allocator: clear(), which takes no lock. While the thread is inside
\* add_mem_chuck the two run unsynchronised on _mem_chunks, _next_free and the
\* counters: either one comes after the other, or they overlap and the
\* destructor walks a vector that push_back is reallocating
DtorClear ==
  /\ dpc = "signalled"
  /\ \E torn \in (IF wpc = "splice" THEN BOOLEAN ELSE {FALSE}) :
       IF torn
       THEN /\ dpc' = "crashed"
            /\ wpc' = "crashed"
            /\ UNCHANGED <<arena, ptr, own, freed>>
       ELSE /\ dpc' = "cleared"
            /\ chunks' = 0
            /\ max_length' = 0
            /\ free_slots' = 0
            /\ next_free' = Null
            /\ slot_next' = [s \in Slots |-> Null]
            /\ slot_used' = [s \in Slots |-> FALSE]
            /\ own' = [u \in Threads |-> {}]
            /\ ptr' = [u \in Threads |-> Null]
            /\ freed' = <<>>
            /\ UNCHANGED wpc
  /\ UNCHANGED <<offPrefetch, sem>>

\* ~arena_allocator: _th_alloc->join() returns once the thread has left its loop
DtorJoin ==
  /\ dpc = "cleared"
  /\ wpc = "done"
  /\ dpc' = "joined"
  /\ UNCHANGED <<offPrefetch, arena, sem, ptr, own, freed, wpc>>

\* two threads on a core arena that has a prefetch thread
InitPrefetch ==
  /\ ArenaConstructed
  /\ threshold > 0
  /\ backend = "mutex"
  /\ role = [t \in Threads |-> "client"]
  /\ quota = [t \in Threads |-> MaxCallsPre]
  /\ QueueInit0 /\ DirectInit0 /\ RegistryInit0 /\ ExtraInit0

NextPrefetch ==
  \/ WorkerAcquire \/ WorkerCheck \/ WorkerSplice
  \/ DtorSignal \/ DtorClear \/ DtorJoin
  \/ dpc = "live" /\ \E t \in Threads : ArenaCalls(t) \/ CoreArenaOps(t)

\* the prefetch thread is scheduled, and so is a destructor that has begun
SpecPrefetch ==
  /\ InitPrefetch
  /\ [][NextPrefetch]_vars
  /\ WF_vars(WorkerAcquire \/ WorkerCheck \/ WorkerSplice)
  /\ WF_vars(DtorClear \/ DtorJoin)

(* C27: alloc_threshold > 0: an allocate that finds free_slots <=           *)
(* alloc_threshold releases the semaphore; and from a released semaphore    *)
(* with growth permitted (size_limit not reached, raw memory left), under  *)
(* fair scheduling of the prefetch thread,                                  *)
(* max_length grows by at least chunk_size, unless the arena is destroyed.  *)
C27_PrefetchAdds ==
  /\ [][\A t \in Threads :
          (pc[t] = "a_alloc" /\ pc'[t] # "a_alloc" /\ free_slots <= threshold)
            => sem' > 0]_vars
  /\ \A m \in 0 .. (MaxChunks * ChunkSize) :
       (/\ sem > 0 /\ dpc = "live" /\ max_length = m
        /\ max_length < size_limit \/ size_limit = 0
        /\ RawCanAllocate(chunks))
         ~> (max_length >= m + ChunkSize \/ dpc # "live")

\* the prefetch thread has added a chunk to an arena in use, some slot of which is taken
C27_ChunkPrefetched ==
  /\ wpc = "added"
  /\ dpc = "live"
  /\ chunks = 2
  /\ \E t \in Threads : own[t] # {}

(* C28: the prefetch thread splices a chunk into the free list only while   *)
(* free_slots <= alloc_threshold.                                           *)
C28_SpliceAtThreshold ==
  [][(wpc = "splice" /\ wpc' = "added") => free_slots <= threshold]_vars

(* C29: at most one chunk extension is in flight per arena: no two threads  *)
(* are inside add_mem_chuck, creating or splicing a chunk, at the same time.*)
C29_OneExtension ==
  Cardinality({t \in Threads : pc[t] \in {"l_grow", "l_growcnt"}}) <= 1

NextRegistry1 ==
  \E a \in Arenas :
    /\ \A b \in Arenas \ {a} : rpc[b] \notin {"scan", "write"}
    /\ RegConstruct(a) \/ RegScan(a) \/ RegWrite(a) \/ RegDestroy(a)
SpecRegistry1 == InitRegistry /\ [][NextRegistry1]_vars

(* C32: add, not overlapped by another call: the value goes into the        *)
(* lowest-index null entry, whose index the caller's variable receives and  *)
(* no other entry changes; with no null entry add fails and every entry and *)
(* the caller's index variable stay as they were.                           *)
C32_AddLowestNull ==
  [][\A a \in Arenas :
       /\ (rpc[a] = "write" /\ rpc'[a] = "live") =>
            /\ reg[rcur[a]] = Null
            /\ \A i \in 0 .. (rcur[a] - 1) : reg[i] # Null
            /\ reg' = [reg EXCEPT ![rcur[a]] = a]
            /\ ndx'[a] = rcur[a]
       /\ (rpc[a] = "scan" /\ rpc'[a] \in {"live", "aborted"}) =>
            /\ \A i \in DOMAIN reg : reg[i] # Null
            /\ reg' = reg
            /\ ndx' = ndx ]_vars

\* an add has failed on a full table, after adds that filled it in index order
C32_FullTableRefused ==
  /\ \A i \in DOMAIN reg : reg[i] # Null /\ ndx[reg[i]] = i
  /\ \E a \in Arenas : rpc[a] \in {"live", "aborted"} /\ \A i \in DOMAIN reg : reg[i] # a

(* ----------------- several arenas of one type: deallocate ---------------- *)
\* every variable but pool, tm, mq, spin and qowner
offMore == <<backend, role, quota, direct, registry, mbox, uniq, prefetch,
             arena, nodes, queue, pc, locals, caller, ghost>>

\* the configuration of a run but pool, tm, mq, spin and qowner
setup == <<backend, role, quota, direct, registry, mbox, uniq, prefetch>>

\* allocate on arena a: the head of its free list is handed out, --_free_slots
PoolAllocate(a) ==
  /\ rpc[a] = "live"
  /\ ~pool.fault
  /\ pool.free[a] # <<>>
  /\ pool' = [pool EXCEPT !.free[a] = Tail(@),
                          !.cnt[a] = @ - 1,
                          !.used = @ \cup {<<Head(pool.free[a]), a>>}]
  /\ UNCHANGED <<offMore, tm, mq, spin, qowner>>

\* the static deallocate( p ) of a slot in use: the arena is looked up in
\* instances_table at the index the slot carries, which add_mem_chuck took
\* from _ndx_instance of the arena that created the slot (s[1]); the slot is
\* pushed on that arena's free list and its _free_slots is incremented. A null
\* entry is dereferenced all the same
PoolDeallocate(s) ==
  /\ s \in pool.used
  /\ ~pool.fault
  /\ rpc[s[1][1]] = "live" /\ rpc[s[2]] = "live"
  /\ LET pArena == reg[ndx[s[1][1]]]
     IN  IF pArena = Null
         THEN pool' = [pool EXCEPT !.fault = TRUE]
         ELSE pool' = [pool EXCEPT !.free[pArena] = <<s[1]>> \o @,
                                   !.cnt[pArena] = @ + 1,
                                   !.used = @ \ {s}]
  /\ UNCHANGED <<offMore, tm, mq, spin, qowner>>

NextPools ==
  \/ NextRegistry
  \/ \E a \in Arenas : PoolAllocate(a)
  \/ \E s \in pool.used : PoolDeallocate(s)
SpecPools == InitRegistry /\ [][NextPools]_vars

(* C31: deallocate(p) pushes p's slot on the free list of the arena that    *)
(* allocated p, the one registered at the index the slot carries, and adds  *)
(* one to its free_slots; the free list and free_slots of every other arena *)
(* stay as they were.                                                       *)
C31_DeallocateFrame ==
  [][\A s \in pool.used :
       (s \notin pool'.used \/ pool'.fault # pool.fault) =>
         /\ ~pool'.fault
         /\ reg[ndx[s[1][1]]] = s[2]
         /\ pool'.free = [pool.free EXCEPT ![s[2]] = <<s[1]>> \o @]
         /\ pool'.cnt = [pool.cnt EXCEPT ![s[2]] = @ + 1] ]_vars

(* ------------------------------ thread_map ------------------------------- *)
\* template parameter base of the instances examined: the default (1) and
\* the one multi_queue uses (0)
Bases == {0, 1}

\* add(tid): under _mtx, return _map[tid] when tid is known, else
\* _map[tid] = ++_counter and return _counter
TmAdd(t) ==
  /\ t \in tm.known \/ tm.counter < tm.base + MaxIds
  /\ IF t \in tm.known
     THEN tm' = [tm EXCEPT !.op = "add", !.by = t, !.ret = tm.ids[t]]
     ELSE tm' = [tm EXCEPT !.ids[t] = tm.counter + 1, !.known = @ \cup {t},
                           !.counter = @ + 1,
                           !.op = "add", !.by = t, !.ret = tm.counter + 1]
  /\ UNCHANGED <<offMore, pool, mq, spin, qowner>>

\* del(tid): under _mtx, false when tid is unknown, else erase it
TmDel(t) ==
  /\ IF t \notin tm.known
     THEN tm' = [tm EXCEPT !.op = "del", !.by = t, !.ok = FALSE]
     ELSE tm' = [tm EXCEPT !.ids[t] = 0, !.known = @ \ {t},
                           !.op = "del", !.by = t, !.ok = TRUE]
  /\ UNCHANGED <<offMore, pool, mq, spin, qowner>>

InitThreadMap ==
  /\ Plain0
  /\ \E b \in Bases : ExtraInit(TmInit(b), MqInit(1, 0))
  /\ backend = "mutex"
  /\ role = [t \in Threads |-> "off"]
  /\ quota = [t \in Threads |-> 0]

NextThreadMap == \E t \in Threads : TmAdd(t) \/ TmDel(t)

SpecThreadMap == InitThreadMap /\ [][NextThreadMap]_vars

\* C34: IDs start from base: with the default base (1) the first thread
\* registered by add receives the ID 1, each further new thread receives
\* the next integer, and a repeated add by a registered thread returns its
\* existing ID.
C34_IdsStartAtBase ==
  [][\A t \in Threads :
       (tm'.op = "add" /\ tm'.by = t /\ tm' # tm) =>
         /\ t \in tm.known => tm'.ret = tm.ids[t]
         /\ (t \notin tm.known /\ tm.counter = tm.base /\ tm.base = 1) =>
              tm'.ret = 1
         /\ (t \notin tm.known /\ tm.counter # tm.base) => tm'.ret = tm.counter + 1
    ]_vars

(* ------------------------------ multi_queue ------------------------------ *)
\* numbers of sub-queues of the instances examined
QueueCounts == {1, 2}

\* push( data ): id = m_th_map.add() % queues, then m_array[id].push( data ).
\* The queue variables are sub-queue mq.watch; an operation on another
\* sub-queue leaves them alone and its result is not recorded.
MqPush(t) ==
  /\ pc[t] = "idle" /\ mq.qid[t] = -1
  /\ role[t] \in {"producer", "both"}
  /\ nextv[t] < quota[t]
  /\ LET id == IF t \in tm.known THEN tm.ids[t] ELSE tm.counter + 1
         qid == id % mq.queues
     IN  /\ tm' = [tm EXCEPT !.ids[t] = id, !.known = @ \cup {t},
                             !.counter = IF t \in tm.known THEN @ ELSE @ + 1,
                             !.op = "add", !.by = t, !.ret = id]
         /\ mq' = [mq EXCEPT !.route[t] = qid]
         /\ nextv' = [nextv EXCEPT ![t] = @ + 1]
         /\ ret' = [ret EXCEPT ![t] = "none"]
         /\ IF qid = mq.watch THEN Goto(t, "alloc") ELSE UNCHANGED pc
  /\ UNCHANGED <<setup, pool, spin, qowner, arena, nodes, queue, locals, data, data0, ghost>>

\* pop( data ), first statement: qid = m_ndx_pop.load()
MqPopLoad(t) ==
  /\ pc[t] = "idle" /\ mq.qid[t] = -1
  /\ role[t] \in {"consumer", "both"}
  /\ Len(popLog) < MaxPops
  /\ mq' = [mq EXCEPT !.qid[t] = mq.ndx_pop]
  /\ UNCHANGED <<offMore, pool, tm, spin, qowner>>

\* pop( data ), the rest: compare_exchange_strong( qid, next index ), which
\* reloads qid when it fails, then m_array[qid].pop( data )
MqPopCas(t) ==
  /\ pc[t] = "idle" /\ mq.qid[t] # -1
  /\ LET want == mq.qid[t]
         ok   == mq.ndx_pop = want
         qid  == mq.ndx_pop
     IN  /\ mq' = [mq EXCEPT !.qid[t] = -1,
                             !.ndx_pop = IF ~ok THEN @
                                         ELSE IF want + 1 < mq.queues THEN want + 1
                                         ELSE 0]
         /\ ret' = [ret EXCEPT ![t] = "none"]
         /\ IF qid = mq.watch
            THEN /\ data0' = [data0 EXCEPT ![t] = data[t]]
                 /\ Goto(t, "pop_ld_head")
            ELSE UNCHANGED <<data0, pc>>
  /\ UNCHANGED <<setup, pool, tm, spin, qowner, arena, nodes, queue, locals, data, nextv, ghost>>

InitMultiQueue ==
  /\ Plain0
  /\ \E n \in QueueCounts : \E w \in 0 .. n - 1 : ExtraInit(TmInit(0), MqInit(n, w))
  /\ backend = "lockfree"
  /\ role = [t \in Threads |-> "both"]
  /\ quota = [t \in Threads |-> IF t = 1 THEN MaxPushLF ELSE MaxPush2]

NextMultiQueue ==
  \E t \in Threads :
    MqPush(t) \/ MqPopLoad(t) \/ MqPopCas(t) \/ ArenaOps(t) \/ LockFreeOps(t)

SpecMultiQueue == InitMultiQueue /\ [][NextMultiQueue]_vars

\* C33: a push without a queue id sends every push of one thread to the
\* same sub-queue, the thread's registered id modulo the number of
\* sub-queues, and the values one thread pushed are popped from that
\* sub-queue in the order they were pushed.
C33_ThreadOrder ==
  /\ \A t \in Threads :
       mq.route[t] # -1 => t \in tm.known /\ mq.route[t] = tm.ids[t] % mq.queues
  /\ \A t \in Threads : \A i, j \in DOMAIN popLog :
       (i < j /\ popLog[i] > 0 /\ popLog[j] > 0
          /\ Producer(popLog[i]) = t /\ Producer(popLog[j]) = t)
         => popLog[i] < popLog[j]

\* the routing half of C33 alone
C33_Routing ==
  [][\A t \in Threads :
       mq'.route[t] # mq.route[t] =>
         /\ mq.route[t] = -1
         /\ mq'.route[t] = tm'.ids[t] % mq.queues ]_vars

(* --------------------------- core::mutex (spinlock) ---------------------- *)
\* what try_lock returns when the exchange read prior: the flag's prior value
TryLockPrior(prior) == prior

\* what try_lock returns when the exchange read prior: !exchange( true )
TryLockResult(prior) == ~prior

\* lock(): one round of do {} while( exchange( _lock, true ) )
SpinLock(t) ==
  /\ \/ spin.st[t] = "idle" /\ spin.n < MaxSpinCalls
     \/ spin.st[t] = "spinning"
  /\ spin' = [spin EXCEPT !.lock = TRUE,
                          !.st[t] = IF spin.lock THEN "spinning" ELSE "holding",
                          !.n = IF spin.st[t] = "idle" THEN @ + 1 ELSE @,
                          !.op = "lock", !.by = t, !.was = spin.lock]
  /\ UNCHANGED <<offMore, pool, tm, mq, qowner>>

\* try_lock(): return !exchange( _lock, true )
SpinTryLock(t) ==
  /\ spin.st[t] \in {"idle", "holding"}
  /\ spin.n < MaxSpinCalls
  /\ spin' = [spin EXCEPT !.lock = TRUE,
                          !.st[t] = IF TryLockResult(spin.lock) THEN "holding" ELSE @,
                          !.n = @ + 1,
                          !.op = "try_lock", !.by = t, !.was = spin.lock,
                          !.ret = TryLockResult(spin.lock)]
  /\ UNCHANGED <<offMore, pool, tm, mq, qowner>>

\* unlock(): store( _lock, false )
SpinUnlock(t) ==
  /\ spin.st[t] = "holding"
  /\ spin.n < MaxSpinCalls
  /\ spin' = [spin EXCEPT !.lock = FALSE, !.st[t] = "idle", !.n = @ + 1,
                          !.op = "unlock", !.by = t]
  /\ UNCHANGED <<offMore, pool, tm, mq, qowner>>

NextSpin == \E t \in Threads : SpinLock(t) \/ SpinTryLock(t) \/ SpinUnlock(t)

SpecSpin == InitRegistry /\ [][NextSpin]_vars

\* C35 as stated: try_lock sets the lock flag and returns the flag's prior
\* value.
C35_TryLockReturnsPrior ==
  [][(spin'.op = "try_lock" /\ spin'.n = spin.n + 1) =>
       spin'.lock /\ spin'.ret = spin.lock]_vars

\* C35 amended: try_lock sets the lock flag and returns the negation of the
\* flag's prior value, true exactly when the caller acquired the lock.
C35_TryLockReturnsAcquired ==
  [][(spin'.op = "try_lock" /\ spin'.n = spin.n + 1) =>
       /\ spin'.lock
       /\ spin'.ret = ~spin.lock
       /\ spin'.ret = (spin.st[spin'.by] # "holding" /\ spin'.st[spin'.by] = "holding")
    ]_vars

\* a try_lock found the flag set and returned false
C35_TryLockRefused == ~(spin.op = "try_lock" /\ spin.was /\ ~spin.ret)

(* C36: destroying an arena that has a prefetch thread: no chunk is created *)
(* or spliced once the destructor's clear has started, clear does not       *)
(* overlap the thread's chunk extension, and when the destructor returns    *)
(* every chunk obtained from the raw allocator has been released.           *)
C36_ClearIsLast ==
  /\ dpc \in {"cleared", "joined"} => wpc # "splice"
  /\ dpc # "crashed"
  /\ dpc = "joined" => chunks = 0

(* C37: one thread calling allocate, deallocate (also twice on the same     *)
(* pointer) and clear: the destructor of T, which deallocate runs between   *)
(* its null test and its is_free test, is never run on a slot that is       *)
(* already FREE, so it runs once for each successful allocate.              *)
C37_DestructorOnce ==
  [][\A t \in Threads :
       (pc[t] = "a_dealloc" /\ pc'[t] # "a_dealloc" /\ ptr[t] # Null)
         => slot_used[ptr[t]] ]_vars

(* C38: on a thread-safe backend a reader that found the mailbox empty and  *)
(* passes a timeout greater than 0 does not return Timeout while an item    *)
(* written meanwhile sits in the queue with no other thread at work to take *)
(* it.                                                                      *)
C38_NoMissedWakeup ==
  [][\A t \in Threads :
       (/\ backend # "raw"
        /\ pc[t] = "rd_wait" /\ tmo[t] > 0
        /\ pc'[t] = "idle" /\ ret'[t] = "Timeout"
        /\ \A u \in Threads \ {t} : pc[u] = "idle")
         => (Unread = 0 \/ head = Null) ]_vars

(* ------------------------ the queue's public lock ------------------------ *)
\* queue::lock() with has_mutex: do {} while ( !try_lock() ), then eSuccess;
\* the call returns once try_lock has found the mutex free
LockCall(t) ==
  /\ pc[t] = "idle"
  /\ role[t] = "both"
  /\ has_mutex
  /\ nextv[t] < quota[t]
  /\ LockFree(qmtx)
  /\ qmtx' = TRUE
  /\ qowner' = t
  /\ ret' = [ret EXCEPT ![t] = "Success"]
  /\ UNCHANGED <<setup, pool, tm, mq, spin, arena, nodes, head, tail, pc, locals,
                 data, data0, nextv, ghost>>

\* queue::unlock() with has_mutex, called by the thread that locked
UnlockCall(t) ==
  /\ pc[t] = "idle"
  /\ qowner = t
  /\ qmtx' = FALSE
  /\ qowner' = 0
  /\ ret' = [ret EXCEPT ![t] = "Success"]
  /\ UNCHANGED <<setup, pool, tm, mq, spin, arena, nodes, head, tail, pc, locals,
                 data, data0, nextv, ghost>>

\* queue::size() is called
SizeCall(t) ==
  /\ pc[t] = "idle"
  /\ role[t] = "both"
  /\ ret' = [ret EXCEPT ![t] = "none"]
  /\ Goto(t, "size_lock")
  /\ UNCHANGED <<config, arena, nodes, queue, locals, data, data0, nextv, ghost>>

\* _size_imp: lock(), _arena.length(), unlock(); it returns the length
SizeLocked(t) ==
  /\ pc[t] = "size_lock"
  /\ has_mutex => LockFree(qmtx)
  /\ Return(t, "Length")
  /\ UNCHANGED <<config, arena, nodes, queue, data, data0, nextv, ghost>>

\* the steps of thread t inside push, pop and size
Inside(t) == DefaultOps(t) \/ ArenaOps(t) \/ SizeLocked(t)

InitLocked ==
  /\ Init0
  /\ backend \in {"mutex", "spinlock"}
  /\ role = [t \in Threads |-> "both"]
  /\ quota = [t \in Threads |-> IF t = 1 THEN MaxPushSer ELSE MaxPush2]

NextLocked ==
  \E t \in Threads :
    Calls(t) \/ LockCall(t) \/ UnlockCall(t) \/ SizeCall(t) \/ Inside(t)

\* every thread inside a call keeps running, and a thread spinning on
\* try_lock gets the mutex if it is free again and again
SpecLocked ==
  /\ InitLocked
  /\ [][NextLocked]_vars
  /\ \A t \in Threads : WF_vars(Inside(t)) /\ SF_vars(QLock(t) \/ SizeLocked(t))

(* C39: mutex and spinlock backends: once a thread's lock() has returned    *)
(* eSuccess, the calls of push, pop and size that thread makes return.      *)
C39_HolderCallsReturn ==
  \A t \in Threads : (qowner = t /\ pc[t] # "idle") ~> (pc[t] = "idle")

(* --------------------------- lock-free stack ----------------------------- *)
\* stack::_push_imp_lockfree after create_node, top of the loop:
\* old_head = _head.load()
StackPushLoadHead(t) ==
  /\ pc[t] = "push_ld_tail"
  /\ old_head' = [old_head EXCEPT ![t] = head]
  /\ Goto(t, IF head # Null THEN "st_set_next" ELSE "st_cas_head")
  /\ UNCHANGED <<config, arena, nodes, queue, new_node, old_tail, old_next,
                 caller, ghost>>

\* new_node->_next.store( old_head ), done when old_head != nullptr
StackPushSetNext(t) ==
  /\ pc[t] = "st_set_next"
  /\ node_next' = [node_next EXCEPT ![new_node[t]] = old_head[t]]
  /\ Goto(t, "st_cas_head")
  /\ UNCHANGED <<config, arena, node_data, queue, locals, caller, ghost>>

\* _head.compare_exchange_weak( old_head, new_node ): on failure back to the
\* top of the loop, else eSuccess
StackPushCasHead(t) ==
  /\ pc[t] = "st_cas_head"
  /\ \E ok \in CasWeak(head = old_head[t]) :
       IF ok
       THEN /\ head' = new_node[t]
            /\ PushDone(t)
       ELSE /\ Goto(t, "push_ld_tail")
            /\ UNCHANGED <<head, locals, ret, ghost>>
  /\ UNCHANGED <<config, arena, nodes, tail, qmtx, data, data0, nextv>>

\* stack::_pop_imp_lockfree after its compare-exchange: data = old_head->_data,
\* then destroy_node( old_head )
StackPopReadData(t) ==
  /\ pc[t] = "pop_rd_data"
  /\ data' = [data EXCEPT ![t] = node_data[old_head[t]]]
  /\ Goto(t, "isfree")
  /\ UNCHANGED <<config, arena, nodes, queue, locals, data0, ret, nextv, ghost>>

StackOps(t) ==
  \/ StackPushLoadHead(t) \/ StackPushSetNext(t) \/ StackPushCasHead(t)
  \/ PopLoadHead(t) \/ PopLoadNext(t) \/ PopCasHead(t) \/ StackPopReadData(t)

NextStack == \E t \in Threads : Calls(t) \/ ArenaOps(t) \/ StackOps(t)

\* two threads pushing and popping on a lock-free stack
SpecStack == InitMPMC /\ [][NextStack]_vars

(* C40: lock-free stack: whenever the head compare-and-swap of a push       *)
(* succeeds, the pushed node's next link is the head value it replaced,     *)
(* null when the stack was empty, also after failed attempts of that push.  *)
C40_LinkIsReplacedHead ==
  [][\A t \in Threads :
       (pc[t] = "st_cas_head" /\ pc'[t] = "idle")
         => node_next[new_node[t]] = head ]_vars

============================================================================
